---------------------------- MODULE Spec2Model ----------------------------
(***************************************************************************)
(* Commitment lifecycle of Neutrino2003/Commitment (backend/commitments):  *)
(* the Commitment state machine, the EvidenceVerification and Complaint    *)
(* sub-workflows, the recurrence spawn and the periodic Celery jobs.       *)
(*                                                                         *)
(* Time is counted in days: one unit is 24 hours, so the 24 h grace period *)
(* of the auto-fail job is one unit and a daily successor is one unit      *)
(* later than its parent.  A timestamp field (activated_at, completed_at,  *)
(* evidence_submitted_at) is modelled by whether it is set.                *)
(*                                                                         *)
(* The code compares evidence_type only with 'self_verification', so the   *)
(* three reviewed kinds (photo, timelapse_video, manual) are represented   *)
(* by "photo"; it compares frequency only with 'one_time' on the paths     *)
(* that change a status, so the fixed-interval kinds are represented by    *)
(* "daily"; 'custom', for which create_next_instance returns None, is not  *)
(* among the frequencies a commitment is created with.                     *)
(*                                                                         *)
(* The generic CRUD of the REST ModelViewSets (PUT/PATCH/DELETE) and the   *)
(* change forms of the Django admin are outside the model.                 *)
(***************************************************************************)
EXTENDS Integers, Sequences, FiniteSets, TLC

\* ------------------------------------------------------------------ bounds
MaxSpawn == 2        \* successors one commitment is let to spawn
MaxTime == 3         \* last value of the clock
MaxStart == 1        \* latest start_time a created commitment is given
MaxDuration == 1     \* longest end_time - start_time a created commitment is given
MaxComplaints == 2   \* rows of the complaints table
MaxStats == 2        \* largest value a counter of the statistics is let to take
MaxRows == 2         \* commitments a run of a periodic job finds in the table
FirstYear == 2023    \* the years a recurring commitment starts in:
LastYear == 2024     \*   a common year and a leap year

\* ------------------------------------------------------- program constants
GracePeriod == 1     \* timedelta(hours=24), in days
DayInterval == 1     \* timedelta(days=1), in days

STATUS_CHOICES ==
    {"draft", "active", "completed", "failed", "cancelled", "paused",
     "appealed", "under_review"}

EVIDENCE_TYPE_CHOICES == {"self_verification", "photo"}

FREQUENCY_CHOICES == {"one_time", "daily"}

VERIFICATION_STATUS_CHOICES ==
    {"pending", "approved", "rejected", "needs_more_info"}

COMPLAINT_STATUS_CHOICES == {"pending", "under_review", "approved", "rejected"}

\* No EvidenceVerification row for the commitment.
NoVerification == "none"

VARIABLES
    now,            \* timezone.now()
    commitments,    \* the commitments table: row id |-> Commitment
    origin,         \* row id |-> id of the commitment whose create_next_instance
                    \*            created the row (0: created by the user)
    spawned,        \* row id |-> number of successors create_next_instance
                    \*            has created from the row
    verifications,  \* commitment id |-> status of its EvidenceVerification
    complaints,     \* the complaints table: row id |-> Complaint
    appeals,        \* commitment id |-> number of failed -> appealed transitions
    stats,          \* the owner's UserStatistics: successful_contracts,
                    \* failed_contracts
    held,           \* requests that have loaded a commitment and not yet run
    capacity,       \* number of rows of the commitments table the model stores
    last            \* the last operation that committed: its name, its target

vars == <<now, commitments, origin, spawned, verifications, complaints, appeals,
          stats, held, capacity, last>>

\* What no operation on the tables writes.
frame == <<now, held, capacity>>

\* The ids of the rows the model stores.
Ids == 1..capacity

Stored == 1..Len(commitments)

\* ------------------------------------------------------------- results
\* An operation that returns: obj is the instance as saved.
Saved(obj) == [ok |-> TRUE, obj |-> obj]

\* An operation that raises ValueError before it writes: obj is unchanged.
ValueError(obj) == [ok |-> FALSE, obj |-> obj]

\* The record of an operation that committed (c is 0 for a job over all rows).
Done(op, c) == [op |-> op, c |-> c]

\* ===================================================== Commitment (models.py)

Commitment(start_time, end_time, frequency, evidence_type, evidence_required, stake_amount, status, activated_at) ==
    [status |-> status,
     start_time |-> start_time,
     end_time |-> end_time,
     frequency |-> frequency,
     evidence_type |-> evidence_type,
     evidence_required |-> evidence_required,
     stake_amount |-> stake_amount,          \* TRUE: set, FALSE: NULL
     evidence_submitted |-> FALSE,
     evidence_submitted_at |-> FALSE,
     activated_at |-> activated_at,
     completed_at |-> FALSE]

is_overdue(self, t) ==
    IF self.status \notin {"active", "under_review"} THEN FALSE
    ELSE t > self.end_time

\* The successor, as a sequence: empty where the code returns None.
create_next_instance(self) ==
    IF self.frequency = "one_time" THEN <<>>
    ELSE IF self.frequency = "daily"
    THEN << Commitment(self.start_time + DayInterval,
                       self.end_time + DayInterval,
                       self.frequency, self.evidence_type,
                       self.evidence_required, self.stake_amount,
                       "active", TRUE) >>
    ELSE <<>>

submit_evidence_after_deadline(self, evidence_type, t) ==
    IF self.status \notin {"active", "paused"} THEN ValueError(self)
    ELSE IF self.evidence_required /\ evidence_type = "" THEN ValueError(self)
    ELSE LET stored == IF evidence_type # ""
                       THEN [self EXCEPT !.evidence_type = evidence_type]
                       ELSE self
             marked == [stored EXCEPT !.evidence_submitted = TRUE,
                                      !.evidence_submitted_at = TRUE]
         IN  IF marked.evidence_type = "self_verification"
             THEN Saved(marked)
             ELSE Saved([marked EXCEPT !.status = "under_review"])

\* evidence_type is the argument: "" where the caller passes None.
submit_evidence(self, evidence_type, t) ==
    IF self.status \notin {"active", "paused"} THEN ValueError(self)
    ELSE IF self.evidence_required /\ evidence_type = "" THEN ValueError(self)
    ELSE IF t > self.end_time THEN ValueError(self)
    ELSE LET stored == IF evidence_type # ""
                       THEN [self EXCEPT !.evidence_type = evidence_type]
                       ELSE self
             marked == [stored EXCEPT !.evidence_submitted = TRUE,
                                      !.evidence_submitted_at = TRUE]
         IN  IF marked.evidence_type = "self_verification"
             THEN Saved(marked)
             ELSE Saved([marked EXCEPT !.status = "under_review"])

\* mark_completed without its check of the failed status.
mark_completed_from_failed(self) ==
    IF self.status \in {"completed", "cancelled"} THEN ValueError(self)
    ELSE IF self.evidence_type # "self_verification" /\ self.status # "under_review"
    THEN ValueError(self)
    ELSE Saved([self EXCEPT !.status = "completed", !.completed_at = TRUE])

\* mark_completed without its check of the evidence verification.
mark_completed_unverified(self) ==
    IF self.status \in {"completed", "cancelled"} THEN ValueError(self)
    ELSE IF self.status = "failed" THEN ValueError(self)
    ELSE Saved([self EXCEPT !.status = "completed", !.completed_at = TRUE])

mark_completed(self) ==
    IF self.status \in {"completed", "cancelled"} THEN ValueError(self)
    ELSE IF self.status = "failed" THEN ValueError(self)
    ELSE IF self.evidence_type # "self_verification" /\ self.status # "under_review"
    THEN ValueError(self)
    ELSE Saved([self EXCEPT !.status = "completed", !.completed_at = TRUE])

mark_failed(self) ==
    IF self.status \in {"completed", "cancelled"} THEN ValueError(self)
    ELSE IF self.status = "failed" THEN ValueError(self)
    ELSE Saved([self EXCEPT !.status = "failed", !.completed_at = TRUE])

activate_past_deadline(self, t) ==
    IF self.status # "draft" THEN ValueError(self)
    ELSE Saved([self EXCEPT !.status = "active", !.activated_at = TRUE])

\* ok: the value the method returns (True when it failed the commitment).
auto_fail_if_overdue(self, t) ==
    IF is_overdue(self, t) /\ ~self.evidence_submitted /\ self.status = "active"
    THEN mark_failed(self)
    ELSE [ok |-> FALSE, obj |-> self]

activate(self, t) ==
    IF self.status # "draft" THEN ValueError(self)
    ELSE IF self.end_time <= t THEN ValueError(self)
    ELSE Saved([self EXCEPT !.status = "active", !.activated_at = TRUE])

pause(self) ==
    IF self.status \notin {"active", "under_review"} THEN ValueError(self)
    ELSE Saved([self EXCEPT !.status = "paused"])

resume(self, t) ==
    IF self.status # "paused" THEN ValueError(self)
    ELSE IF t > self.end_time THEN ValueError(self)
    ELSE IF self.evidence_submitted
    THEN Saved([self EXCEPT !.status = "under_review"])
    ELSE Saved([self EXCEPT !.status = "active"])

\* cancel that refuses only a failed commitment.
cancel_any_status(self) ==
    IF self.status = "failed" THEN ValueError(self)
    ELSE Saved([self EXCEPT !.status = "cancelled"])

cancel(self) ==
    IF self.status \in {"completed", "failed", "cancelled"} THEN ValueError(self)
    ELSE Saved([self EXCEPT !.status = "cancelled"])

\* ======================================== EvidenceVerification (models.py)
\* status: the verification's status; commitment: its parent, as loaded.
\* The verification is saved before the parent is touched: when mark_completed
\* raises, ok is FALSE and status is what that save wrote.
EvidenceVerification_approve(status, commitment) ==
    IF status \in {"approved", "rejected"}
    THEN [ok |-> FALSE, status |-> status, commitment |-> commitment]
    ELSE IF commitment.status \in {"active", "under_review"}
    THEN LET r == mark_completed(commitment)
         IN  [ok |-> r.ok, status |-> "approved", commitment |-> r.obj]
    ELSE [ok |-> TRUE, status |-> "approved", commitment |-> commitment]

EvidenceVerification_reject(status, commitment) ==
    IF status \in {"approved", "rejected"}
    THEN [ok |-> FALSE, status |-> status, commitment |-> commitment]
    ELSE IF commitment.status \in {"active", "under_review"}
    THEN LET r == mark_failed(commitment)
         IN  [ok |-> r.ok, status |-> "rejected", commitment |-> r.obj]
    ELSE [ok |-> TRUE, status |-> "rejected", commitment |-> commitment]

EvidenceVerification_request_more_info(status) == "needs_more_info"

\* ==================================================== Complaint (models.py)
NewComplaint(c) == [commitment |-> c, status |-> "pending", refund_processed |-> FALSE]

\* Complaint.approve that refuses only a rejected complaint.
Complaint_approve_again(self, commitment) ==
    IF self.status = "rejected"
    THEN [ok |-> FALSE, obj |-> self, commitment |-> commitment]
    ELSE [ok |-> TRUE,
          obj |-> [self EXCEPT !.status = "approved"],
          commitment |-> IF commitment.status = "failed"
                         THEN [commitment EXCEPT !.status = "appealed"]
                         ELSE commitment]

\* self: the complaint; commitment: its parent.
Complaint_approve(self, commitment) ==
    IF self.status \in {"approved", "rejected"}
    THEN [ok |-> FALSE, obj |-> self, commitment |-> commitment]
    ELSE [ok |-> TRUE,
          obj |-> [self EXCEPT !.status = "approved"],
          commitment |-> IF commitment.status = "failed"
                         THEN [commitment EXCEPT !.status = "appealed"]
                         ELSE commitment]

Complaint_reject(self) ==
    IF self.status \in {"approved", "rejected"} THEN ValueError(self)
    ELSE Saved([self EXCEPT !.status = "rejected"])

\* ============================================================ services.py
\* A service returns res ("ok" or the exception that rolled the transaction
\* back), the commitment row as committed, the rows it created and the counter
\* of the statistics it incremented ("" for none).
Outcome(res, obj, next, counted) ==
    [res |-> res, obj |-> obj, next |-> next, counted |-> counted]

RolledBack(res, obj) == Outcome(res, obj, <<>>, "")

update_user_stats_on_completion == "successful_contracts"

complete_self_verified_unstamped(commitment, evidence_text) ==
    LET noted == IF evidence_text
                 THEN [commitment EXCEPT !.evidence_submitted = TRUE]
                 ELSE commitment
        r == mark_completed(noted)
    IN  IF ~r.ok THEN RolledBack("ValueError", commitment)
        ELSE IF r.obj.frequency # "one_time"
        THEN Outcome("ok", r.obj, create_next_instance(r.obj),
                     update_user_stats_on_completion)
        ELSE Outcome("ok", r.obj, <<>>, update_user_stats_on_completion)

\* stats.total_loss += stake_amount: TypeError when stake_amount is None.
update_user_stats_on_failure(stake_amount) ==
    IF stake_amount THEN "failed_contracts" ELSE "TypeError"

complete_self_verified(commitment, evidence_text) ==
    LET noted == IF evidence_text
                 THEN [commitment EXCEPT !.evidence_submitted = TRUE,
                                         !.evidence_submitted_at = TRUE]
                 ELSE commitment
        r == mark_completed(noted)
    IN  IF ~r.ok THEN RolledBack("ValueError", commitment)
        ELSE IF r.obj.frequency # "one_time"
        THEN Outcome("ok", r.obj, create_next_instance(r.obj),
                     update_user_stats_on_completion)
        ELSE Outcome("ok", r.obj, <<>>, update_user_stats_on_completion)

submit_for_verification(commitment, evidence_type, t) ==
    LET r == submit_evidence(commitment, evidence_type, t)
    IN  IF ~r.ok THEN RolledBack("ValueError", commitment)
        ELSE Outcome("ok", r.obj, <<>>, "")

\* verified: TRUE when the call went through _submit_for_verification and so
\* wrote the EvidenceVerification row.
CommitmentService_complete_commitment(commitment, evidence_type, evidence_text, t) ==
    IF commitment.status \notin {"active", "paused"}
    THEN [out |-> RolledBack("ValueError", commitment), verified |-> FALSE]
    ELSE IF commitment.evidence_type = "self_verification"
    THEN [out |-> complete_self_verified(commitment, evidence_text), verified |-> FALSE]
    ELSE LET o == submit_for_verification(commitment, evidence_type, t)
         IN  [out |-> o, verified |-> o.res = "ok"]

CommitmentService_mark_commitment_failed(commitment) ==
    IF commitment.status \in {"completed", "cancelled"}
    THEN RolledBack("ValueError", commitment)
    ELSE LET r == mark_failed(commitment)
         IN  IF ~r.ok THEN RolledBack("ValueError", commitment)
             ELSE IF update_user_stats_on_failure(r.obj.stake_amount) = "TypeError"
             THEN RolledBack("TypeError", commitment)
             ELSE IF r.obj.frequency # "one_time"
             THEN Outcome("ok", r.obj, create_next_instance(r.obj),
                          update_user_stats_on_failure(r.obj.stake_amount))
             ELSE Outcome("ok", r.obj, <<>>,
                          update_user_stats_on_failure(r.obj.stake_amount))

\* status: the verification's status; commitment: its parent.
EvidenceVerificationService_approve_evidence(status, commitment) ==
    IF status # "pending"
    THEN [out |-> RolledBack("ValueError", commitment), status |-> status]
    ELSE LET a == EvidenceVerification_approve(status, commitment)
         IN  IF ~a.ok
             THEN [out |-> RolledBack("ValueError", commitment), status |-> status]
             ELSE [out |-> Outcome("ok", a.commitment,
                                   IF a.commitment.frequency # "one_time"
                                   THEN create_next_instance(a.commitment)
                                   ELSE <<>>,
                                   update_user_stats_on_completion),
                   status |-> a.status]

EvidenceVerificationService_reject_evidence(status, commitment) ==
    IF status # "pending"
    THEN [out |-> RolledBack("ValueError", commitment), status |-> status]
    ELSE LET a == EvidenceVerification_reject(status, commitment)
         IN  IF ~a.ok
             THEN [out |-> RolledBack("ValueError", commitment), status |-> status]
             ELSE IF update_user_stats_on_failure(a.commitment.stake_amount)
                     = "TypeError"
             THEN [out |-> RolledBack("TypeError", commitment), status |-> status]
             ELSE [out |-> Outcome("ok", a.commitment,
                                   IF a.commitment.frequency # "one_time"
                                   THEN create_next_instance(a.commitment)
                                   ELSE <<>>,
                                   update_user_stats_on_failure(
                                       a.commitment.stake_amount)),
                   status |-> a.status]

ComplaintService_create_complaint(commitment) == commitment.status \in {"failed"}

ComplaintService_approve_complaint(complaint, commitment) ==
    IF complaint.status \in {"approved", "rejected"}
    THEN [ok |-> FALSE, obj |-> complaint, commitment |-> commitment]
    ELSE Complaint_approve(complaint, commitment)

ComplaintService_reject_complaint(complaint) ==
    IF complaint.status \in {"approved", "rejected"} THEN ValueError(complaint)
    ELSE Complaint_reject(complaint)

\* ================================================================ the store
\* One commitment is followed from its creation: the state machine, the
\* review of its evidence and its complaint read and write that row only.
Init ==
    /\ capacity = 1
    /\ now = 0
    /\ commitments = <<>>
    /\ origin = <<>>
    /\ spawned = [c \in Ids |-> 0]
    /\ verifications = [c \in Ids |-> NoVerification]
    /\ complaints = <<>>
    /\ appeals = [c \in Ids |-> 0]
    /\ stats = [successful_contracts |-> 0, failed_contracts |-> 0]
    /\ held = <<>>
    /\ last = Done("init", 0)

\* An operation that raised leaves last as it was; one that committed is
\* recorded.
Record(op, c, ok) == last' = IF ok THEN Done(op, c) ELSE last

\* The table after create_next_instance of row c created the rows next.  A
\* spawned row starts in a state a created row also reaches (active, no
\* evidence) and no operation on a row reads another row, so the model stores
\* capacity rows: a row created beyond them is counted in spawned and not
\* stored.
Kept(rows) == IF Len(rows) <= capacity THEN rows ELSE SubSeq(rows, 1, capacity)

Created(cs, next) == Kept(cs \o next)

CreatedOrigin(og, c, next) == Kept(og \o [i \in 1..Len(next) |-> c])

\* The statistics after the counter counted was incremented.
Counted(counted) ==
    IF counted = "" THEN stats ELSE [stats EXCEPT ![counted] = @ + 1]

\* Commit the outcome of a service on row c: nothing when it rolled back.
Apply(c, out) ==
    /\ spawned[c] + Len(out.next) <= MaxSpawn
    /\ \A f \in DOMAIN stats : Counted(out.counted)[f] <= MaxStats
    /\ stats' = Counted(out.counted)
    /\ commitments' = IF out.res = "ok"
                      THEN Created([commitments EXCEPT ![c] = out.obj], out.next)
                      ELSE commitments
    /\ origin' = IF out.res = "ok"
                 THEN CreatedOrigin(origin, c, out.next)
                 ELSE origin
    /\ spawned' = IF out.res = "ok"
                  THEN [spawned EXCEPT ![c] = @ + Len(out.next)]
                  ELSE spawned

\* Save the instance a model method returns (the instance as loaded when the
\* method raised).
Save(c, r) ==
    /\ commitments' = [commitments EXCEPT ![c] = r.obj]
    /\ UNCHANGED <<origin, spawned, stats>>

Tick ==
    /\ now < MaxTime
    /\ now' = now + 1
    /\ UNCHANGED <<commitments, origin, spawned, verifications, complaints,
                   appeals, stats, held, capacity, last>>

\* ================================================================= views.py
\* CommitmentViewSet.perform_create
perform_create ==
    /\ Len(commitments) < capacity
    /\ \E start_time \in 0..MaxStart, d \in 1..MaxDuration,
          frequency \in FREQUENCY_CHOICES, evidence_type \in EVIDENCE_TYPE_CHOICES,
          evidence_required \in BOOLEAN, stake_amount \in BOOLEAN :
          LET end_time == start_time + d
              auto == start_time <= now /\ end_time > now
              row == Commitment(start_time, end_time, frequency, evidence_type,
                                evidence_required, stake_amount,
                                IF auto THEN "active" ELSE "draft", auto)
          IN  /\ commitments' = Append(commitments, row)
              /\ origin' = Append(origin, 0)
              /\ UNCHANGED <<spawned, stats>>
              /\ Record("create", Len(commitments) + 1, TRUE)
    /\ UNCHANGED <<frame, verifications, complaints, appeals>>

\* CommitmentViewSet.retrieve (list does the same for each row of the owner):
\* a draft whose window has opened is activated before it is shown.
views_retrieve(c) ==
    LET self == commitments[c]
        r == IF self.status = "draft" /\ self.start_time <= now /\ self.end_time > now
             THEN activate(self, now)
             ELSE [ok |-> FALSE, obj |-> self]
    IN  /\ Save(c, r)
        /\ Record("retrieve", c, r.ok)
        /\ UNCHANGED <<frame, verifications, complaints, appeals>>

\* CommitmentViewSet.activate / pause / resume / cancel
views_activate(c) ==
    LET r == activate(commitments[c], now)
    IN  /\ Save(c, r)
        /\ Record("activate", c, r.ok)
        /\ UNCHANGED <<frame, verifications, complaints, appeals>>

views_pause(c) ==
    LET r == pause(commitments[c])
    IN  /\ Save(c, r)
        /\ Record("pause", c, r.ok)
        /\ UNCHANGED <<frame, verifications, complaints, appeals>>

views_resume(c) ==
    LET r == resume(commitments[c], now)
    IN  /\ Save(c, r)
        /\ Record("resume", c, r.ok)
        /\ UNCHANGED <<frame, verifications, complaints, appeals>>

views_cancel(c) ==
    LET r == cancel(commitments[c])
    IN  /\ Save(c, r)
        /\ Record("cancel", c, r.ok)
        /\ UNCHANGED <<frame, verifications, complaints, appeals>>

\* CommitmentViewSet.mark_completed
views_mark_completed(c) ==
    \E evidence_type \in EVIDENCE_TYPE_CHOICES \cup {""}, evidence_text \in BOOLEAN :
        LET s == CommitmentService_complete_commitment(commitments[c], evidence_type,
                                                       evidence_text, now)
        IN  /\ Apply(c, s.out)
            /\ verifications' = IF s.verified
                                THEN [verifications EXCEPT ![c] = "pending"]
                                ELSE verifications
            /\ Record("complete_commitment", c, s.out.res = "ok")
            /\ UNCHANGED <<frame, complaints, appeals>>

\* CommitmentViewSet.mark_failed
views_mark_failed(c) ==
    LET out == CommitmentService_mark_commitment_failed(commitments[c])
    IN  /\ Apply(c, out)
        /\ Record("mark_commitment_failed", c, out.res = "ok")
        /\ UNCHANGED <<frame, verifications, complaints, appeals>>

\* The state machine's operations called on the model itself.
Commitment_submit_evidence(c) ==
    \E evidence_type \in EVIDENCE_TYPE_CHOICES \cup {""} :
        LET r == submit_evidence(commitments[c], evidence_type, now)
        IN  /\ Save(c, r)
            /\ Record("submit_evidence", c, r.ok)
            /\ UNCHANGED <<frame, verifications, complaints, appeals>>

Commitment_mark_completed(c) ==
    LET r == mark_completed(commitments[c])
    IN  /\ Save(c, r)
        /\ Record("mark_completed", c, r.ok)
        /\ UNCHANGED <<frame, verifications, complaints, appeals>>

Commitment_mark_failed(c) ==
    LET r == mark_failed(commitments[c])
    IN  /\ Save(c, r)
        /\ Record("mark_failed", c, r.ok)
        /\ UNCHANGED <<frame, verifications, complaints, appeals>>

\* ------------------------------------------------------------- complaints
ComplaintsOf(c) == {k \in 1..Len(complaints) : complaints[k].commitment = c}

\* ComplaintCreateSerializer.validate_commitment, for the owner of c
validate_commitment(c) ==
    /\ commitments[c].status = "failed"
    /\ ComplaintsOf(c) = {}

\* ComplaintViewSet.create / perform_create
views_create_complaint(c) ==
    /\ Len(complaints) < MaxComplaints
    /\ LET ok == /\ validate_commitment(c)
                 /\ ComplaintService_create_complaint(commitments[c])
       IN  /\ complaints' = IF ok THEN Append(complaints, NewComplaint(c))
                            ELSE complaints
           /\ Record("create_complaint", c, ok)
    /\ UNCHANGED <<stats, frame, commitments, origin, spawned, verifications, appeals>>

\* Write back what Complaint.approve saved on complaint k and its parent.
Approved(k, a) ==
    LET c == complaints[k].commitment
    IN  /\ complaints' = [complaints EXCEPT ![k] = a.obj]
        /\ commitments' = [commitments EXCEPT ![c] = a.commitment]
        /\ appeals' = IF commitments[c].status = "failed"
                         /\ a.commitment.status = "appealed"
                      THEN [appeals EXCEPT ![c] = @ + 1]
                      ELSE appeals

\* ComplaintViewSet.review
views_review(k) ==
    LET c == complaints[k].commitment
    IN  \/ LET a == ComplaintService_approve_complaint(complaints[k], commitments[c])
           IN  /\ Approved(k, a)
               /\ Record("approve_complaint", c, a.ok)
               /\ UNCHANGED <<stats, frame, origin, spawned, verifications>>
        \/ LET r == ComplaintService_reject_complaint(complaints[k])
           IN  /\ complaints' = [complaints EXCEPT ![k] = r.obj]
               /\ Record("reject_complaint", c, r.ok)
               /\ UNCHANGED <<stats, frame, commitments, origin, spawned, verifications,
                              appeals>>

\* ComplaintAdmin.approve_complaints / reject_complaints, one row selected
admin_approve_complaints(k) ==
    /\ complaints[k].status \in {"pending", "under_review"}
    /\ LET c == complaints[k].commitment
           a == Complaint_approve(complaints[k], commitments[c])
       IN  /\ Approved(k, a)
           /\ Record("admin_approve_complaints", c, a.ok)
    /\ UNCHANGED <<stats, frame, origin, spawned, verifications>>

admin_reject_complaints(k) ==
    /\ complaints[k].status \in {"pending", "under_review"}
    /\ LET r == Complaint_reject(complaints[k])
       IN  /\ complaints' = [complaints EXCEPT ![k] = r.obj]
           /\ Record("admin_reject_complaints", complaints[k].commitment, r.ok)
    /\ UNCHANGED <<stats, frame, commitments, origin, spawned, verifications, appeals>>

\* ---------------------------------------------------------- evidence review
\* EvidenceVerificationViewSet.verify: the three actions of the service
views_verify(c) ==
    /\ verifications[c] # NoVerification
    /\ \/ LET s == EvidenceVerificationService_approve_evidence(verifications[c],
                                                                commitments[c])
          IN  /\ Apply(c, s.out)
              /\ verifications' = [verifications EXCEPT ![c] = s.status]
              /\ Record("approve_evidence", c, s.out.res = "ok")
       \/ LET s == EvidenceVerificationService_reject_evidence(verifications[c],
                                                               commitments[c])
          IN  /\ Apply(c, s.out)
              /\ verifications' = [verifications EXCEPT ![c] = s.status]
              /\ Record("reject_evidence", c, s.out.res = "ok")
       \/ /\ verifications' =
                IF verifications[c] = "pending"
                THEN [verifications EXCEPT
                         ![c] = EvidenceVerification_request_more_info(@)]
                ELSE verifications
          /\ Record("request_more_info", c, verifications[c] = "pending")
          /\ UNCHANGED <<commitments, origin, spawned, stats>>
    /\ UNCHANGED <<frame, complaints, appeals>>

\* EvidenceVerificationAdmin.approve_evidence / reject_evidence /
\* request_more_information, one row selected.  No transaction surrounds the
\* call: what the method saved before it raised stays.
admin_approve_evidence(c) ==
    /\ verifications[c] = "pending"
    /\ LET a == EvidenceVerification_approve(verifications[c], commitments[c])
       IN  /\ verifications' = [verifications EXCEPT ![c] = a.status]
           /\ commitments' = [commitments EXCEPT ![c] = a.commitment]
           /\ Record("admin_approve_evidence", c, TRUE)
    /\ UNCHANGED <<stats, frame, origin, spawned, complaints, appeals>>

admin_reject_evidence(c) ==
    /\ verifications[c] = "pending"
    /\ LET a == EvidenceVerification_reject(verifications[c], commitments[c])
       IN  /\ verifications' = [verifications EXCEPT ![c] = a.status]
           /\ commitments' = [commitments EXCEPT ![c] = a.commitment]
           /\ Record("admin_reject_evidence", c, TRUE)
    /\ UNCHANGED <<stats, frame, origin, spawned, complaints, appeals>>

admin_request_more_information(c) ==
    /\ verifications[c] = "pending"
    /\ verifications' = [verifications EXCEPT
                            ![c] = EvidenceVerification_request_more_info(@)]
    /\ Record("admin_request_more_information", c, TRUE)
    /\ UNCHANGED <<stats, frame, commitments, origin, spawned, complaints, appeals>>

\* ================================================================= tasks.py
RECURSIVE Descending(_)
\* Meta.ordering = ['-created_at']: the newest row first.
Descending(S) ==
    IF S = {} THEN <<>>
    ELSE LET m == CHOOSE x \in S : \A y \in S : y <= x
         IN  <<m>> \o Descending(S \ {m})

auto_activate_commitments ==
    /\ commitments' =
          [c \in Stored |->
              IF /\ commitments[c].status = "draft"
                 /\ commitments[c].start_time <= now
                 /\ commitments[c].end_time > now
              THEN activate(commitments[c], now).obj
              ELSE commitments[c]]
    /\ Record("auto_activate_commitments", 0, commitments' # commitments)
    /\ UNCHANGED <<stats, frame, origin, spawned, verifications, complaints, appeals>>

\* The queryset of auto_fail_overdue_commitments at time t.
\* The queryset without the grace period.
overdue_commitments_no_grace(t) ==
    {c \in Stored : /\ commitments[c].status = "active"
                    /\ commitments[c].end_time < t
                    /\ ~commitments[c].evidence_submitted}

overdue_commitments(t) ==
    {c \in Stored : /\ commitments[c].status = "active"
                    /\ commitments[c].end_time < t - GracePeriod
                    /\ ~commitments[c].evidence_submitted}

RECURSIVE auto_fail_each(_, _, _, _, _)
\* The loop of auto_fail_overdue_commitments over the rows ids.
auto_fail_each(ids, cs, og, sp, t) ==
    IF ids = <<>> THEN [commitments |-> cs, origin |-> og, spawned |-> sp]
    ELSE LET c == Head(ids)
             r == auto_fail_if_overdue(cs[c], t)
             next == IF r.ok /\ r.obj.frequency # "one_time"
                     THEN create_next_instance(r.obj)
                     ELSE <<>>
         IN  IF r.ok
             THEN auto_fail_each(Tail(ids),
                                 Created([cs EXCEPT ![c] = r.obj], next),
                                 CreatedOrigin(og, c, next),
                                 [sp EXCEPT ![c] = @ + Len(next)], t)
             ELSE auto_fail_each(Tail(ids), cs, og, sp, t)

auto_fail_overdue_commitments ==
    LET swept == auto_fail_each(Descending(overdue_commitments(now)),
                                commitments, origin, spawned, now)
    IN  /\ \A c \in Ids : swept.spawned[c] <= MaxSpawn
        /\ commitments' = swept.commitments
        /\ origin' = swept.origin
        /\ spawned' = swept.spawned
        /\ Record("auto_fail_overdue_commitments", 0, commitments' # commitments)
        /\ UNCHANGED <<stats, frame, verifications, complaints, appeals>>

\* The write of verify_evidence_automatic on the row it loaded.
verify_evidence_automatic(self) ==
    IF /\ self.evidence_type = "self_verification"
       /\ self.evidence_submitted
       /\ self.status = "active"
    THEN Saved([self EXCEPT !.status = "completed", !.completed_at = TRUE])
    ELSE [ok |-> FALSE, obj |-> self]

tasks_verify_evidence_automatic(c) ==
    LET r == verify_evidence_automatic(commitments[c])
    IN  /\ Save(c, r)
        /\ Record("verify_evidence_automatic", c, r.ok)
        /\ UNCHANGED <<frame, verifications, complaints, appeals>>

\* ===================================================== one request at a time
Next ==
    \/ Tick
    \/ perform_create
    \/ \E c \in Stored :
          \/ views_retrieve(c)
          \/ views_activate(c)
          \/ views_pause(c)
          \/ views_resume(c)
          \/ views_cancel(c)
          \/ views_mark_completed(c)
          \/ views_mark_failed(c)
          \/ Commitment_submit_evidence(c)
          \/ Commitment_mark_completed(c)
          \/ Commitment_mark_failed(c)
          \/ views_create_complaint(c)
          \/ views_verify(c)
          \/ admin_approve_evidence(c)
          \/ admin_reject_evidence(c)
          \/ admin_request_more_information(c)
          \/ tasks_verify_evidence_automatic(c)
    \/ \E k \in 1..Len(complaints) :
          \/ views_review(k)
          \/ admin_approve_complaints(k)
          \/ admin_reject_complaints(k)
    \/ auto_activate_commitments
    \/ auto_fail_overdue_commitments

Spec == Init /\ [][Next]_vars

\* ============================================== requests that run together
\* CommitmentViewSet.mark_failed, in its two steps: get_object loads the row,
\* then the service runs on the instance as loaded.  No row lock is taken
\* (no select_for_update), so other requests commit in between.
get_object(c) ==
    /\ held = <<>>
    /\ held' = << [op |-> "mark_failed", c |-> c, obj |-> commitments[c]] >>
    /\ UNCHANGED <<now, commitments, origin, spawned, verifications, complaints,
                   appeals, stats, capacity, last>>

\* The service on the instance as loaded: save() writes every field of it.
views_mark_failed_loaded ==
    /\ held # <<>>
    /\ LET h == Head(held)
           out == CommitmentService_mark_commitment_failed(h.obj)
       IN  /\ Apply(h.c, out)
           /\ Record("mark_commitment_failed", h.c, out.res = "ok")
    /\ held' = <<>>
    /\ UNCHANGED <<now, capacity, verifications, complaints, appeals>>

\* The requests of the owner on the commitment views, the clock, and the
\* request that has loaded its row.
NextConc ==
    \/ Tick
    \/ perform_create
    \/ \E c \in Stored :
          \/ views_activate(c)
          \/ views_pause(c)
          \/ views_resume(c)
          \/ views_cancel(c)
          \/ views_mark_completed(c)
          \/ views_mark_failed(c)
          \/ get_object(c)
    \/ views_mark_failed_loaded

SpecConc == Init /\ [][NextConc]_vars

\* ================================================================ properties
EvidenceArguments == EVIDENCE_TYPE_CHOICES \cup {""}

\* Every operation of the state machine raises on the instance self at time t
\* and leaves it as it was.
StateMachineFails(self, t) ==
    /\ ~activate(self, t).ok
    /\ \A e \in EvidenceArguments : ~submit_evidence(self, e, t).ok
    /\ ~mark_completed(self).ok
    /\ ~mark_failed(self).ok
    /\ ~pause(self).ok
    /\ ~resume(self, t).ok
    /\ ~cancel(self).ok
    /\ ~auto_fail_if_overdue(self, t).ok
    /\ ~verify_evidence_automatic(self).ok

\* C1: terminal states are absorbing.  While a commitment's status is
\* completed or cancelled, every operation of the state machine (activate,
\* submit_evidence, mark_completed, mark_failed, pause, resume, cancel,
\* auto_fail_if_overdue, the automatic verification) fails on it, and no step
\* of the system (requests, evidence review, complaint review, sweeper jobs)
\* changes its status.
C1_TerminalAbsorbing ==
    [][\A c \in Stored :
          commitments[c].status \in {"completed", "cancelled"}
          => /\ StateMachineFails(commitments[c], now)
             /\ commitments'[c].status = commitments[c].status]_vars

\* C1, its case: an evidence approval has acted on a cancelled commitment,
\* which is still cancelled.
C1_Witness ==
    \E c \in Stored :
        /\ commitments[c].status = "cancelled"
        /\ verifications[c] = "approved"

\* C2: of two mark_failed calls that run together on a commitment that can be
\* failed, exactly one succeeds.  The request that loaded the row before the
\* other call committed (the row is failed now, by that call) fails when it
\* runs: it writes nothing, updates no statistics and spawns no successor.
C2_ExactlyOneMarkFailedSucceeds ==
    [][\A c \in Stored :
          /\ held # <<>> /\ held' = <<>>
          /\ Head(held).c = c
          /\ Head(held).obj.status \notin {"completed", "cancelled", "failed"}
          /\ commitments[c].status = "failed"
          /\ last = Done("mark_commitment_failed", c)
          => /\ commitments' = commitments
             /\ stats' = stats
             /\ spawned' = spawned]_vars

\* C2, its case: both calls have run and the failure was counted twice for the
\* one commitment, which spawned twice.
C2_Witness ==
    \E c \in Stored :
        /\ held = <<>>
        /\ commitments[c].status = "failed"
        /\ stats.failed_contracts = 2
        /\ spawned[c] = 2

\* C3: a recurring commitment never spawns more than one successor, whatever
\* the sequence of operations.
C3_AtMostOneSuccessor ==
    \A c \in Stored :
        commitments[c].frequency # "one_time" => spawned[c] <= 1

\* C3, its case: a recurring commitment that was completed after review has
\* spawned two successors.
C3_Witness ==
    \E c \in Stored :
        /\ commitments[c].frequency # "one_time"
        /\ commitments[c].status = "completed"
        /\ verifications[c] = "approved"
        /\ spawned[c] = 2

\* The operations C4 names as the paths to completed or failed.
TerminalPaths ==
    {"complete_commitment", "mark_commitment_failed", "approve_evidence",
     "reject_evidence", "admin_approve_evidence", "admin_reject_evidence",
     "auto_fail_overdue_commitments", "verify_evidence_automatic"}

\* C4: the spawn is atomic with the terminal transition.  Whenever one of the
\* paths (the services, evidence review through the service or the admin
\* action, the auto-fail sweep, the automatic verification) moves a recurring
\* commitment to completed or failed, the commitment has a successor in the
\* state the operation leaves.
C4_SpawnWithTerminalTransition ==
    [][\A c \in Stored :
          /\ commitments[c].frequency # "one_time"
          /\ commitments[c].status \notin {"completed", "failed"}
          /\ commitments'[c].status \in {"completed", "failed"}
          /\ last'.op \in TerminalPaths
          => spawned'[c] >= 1]_vars

\* C4, its case: the admin action completed a recurring commitment, which
\* has no successor.
C4_Witness ==
    \E c \in Stored :
        /\ commitments[c].frequency # "one_time"
        /\ commitments[c].status = "completed"
        /\ last = Done("admin_approve_evidence", c)
        /\ spawned[c] = 0

\* C5: an approved EvidenceVerification has a completed parent, in every
\* reachable state.
C5_ApprovedImpliesCompleted ==
    \A c \in Stored :
        verifications[c] = "approved" => commitments[c].status = "completed"

\* C5, its case: the service approved the evidence of a paused commitment,
\* which is still paused.
C5_Witness ==
    \E c \in Stored :
        /\ verifications[c] = "approved"
        /\ commitments[c].status = "paused"
        /\ last = Done("approve_evidence", c)

\* C6: a reject that sets the verification to rejected leaves the parent
\* commitment failed.
C6_RejectedImpliesFailed ==
    [][\A c \in Stored :
          verifications[c] # "rejected" /\ verifications'[c] = "rejected"
          => commitments'[c].status = "failed"]_vars

\* C6, its case: the service rejected the evidence of a paused commitment,
\* which is still paused.
C6_Witness ==
    \E c \in Stored :
        /\ verifications[c] = "rejected"
        /\ commitments[c].status = "paused"
        /\ last = Done("reject_evidence", c)

\* Approve and reject, through the service and on the model, raise on the
\* complaint k and leave it and its parent as they were.
ReviewFails(k) ==
    LET self == complaints[k]
        parent == commitments[self.commitment]
        s == ComplaintService_approve_complaint(self, parent)
        m == Complaint_approve(self, parent)
    IN  /\ ~s.ok /\ s.obj = self /\ s.commitment = parent
        /\ ~m.ok /\ m.obj = self /\ m.commitment = parent
        /\ ~ComplaintService_reject_complaint(self).ok
        /\ ~Complaint_reject(self).ok

C8_AppealedTerminal ==
    [][\A c \in Stored :
          commitments[c].status = "appealed"
          => commitments'[c].status = "appealed"]_vars

\* C8, its case: an appealed commitment was cancelled.
C8_Witness ==
    \E c \in Stored :
        /\ appeals[c] = 1
        /\ commitments[c].status = "cancelled"
        /\ last = Done("cancel", c)

\* C9: from failed the only status change is failed -> appealed, made by the
\* approval of a complaint on the commitment; the direct operations of the
\* state machine fail on a failed commitment.
C9_FailedOnlyAppealed ==
    [][\A c \in Stored :
          commitments[c].status = "failed"
          => /\ StateMachineFails(commitments[c], now)
             /\ commitments'[c].status \in {"failed", "appealed"}
             /\ commitments'[c].status = "appealed"
                => \E k \in ComplaintsOf(c) :
                      /\ complaints[k].status # "approved"
                      /\ complaints'[k].status = "approved"]_vars

\* C9, its case: an evidence approval has acted on a failed commitment, which
\* is still failed.
C9_Witness ==
    \E c \in Stored :
        /\ commitments[c].status = "failed"
        /\ verifications[c] = "approved"
        /\ last.op \in {"approve_evidence", "admin_approve_evidence"}

\* C10: submit_evidence on a commitment whose evidence_type is
\* self_verification, whatever its argument, leaves the status where it was.
C10_SelfVerificationNotReviewed ==
    [][\A c \in Stored :
          /\ commitments[c].evidence_type = "self_verification"
          /\ last' = Done("submit_evidence", c)
          => commitments'[c].status = commitments[c].status]_vars

\* C11: on a commitment whose evidence_type is not self_verification,
\* mark_completed fails and leaves the commitment as it was unless the status
\* is under_review; a mark_completed that succeeds sets status completed and
\* completed_at.  The step that runs it on the stored row writes just that.
C11_MarkCompletedNeedsReview ==
    [][\A c \in Stored :
          LET self == commitments[c]
              r == mark_completed(self)
          IN  /\ self.evidence_type # "self_verification"
                 /\ self.status # "under_review"
                 => ~r.ok /\ r.obj = self
              /\ r.ok => r.obj.status = "completed" /\ r.obj.completed_at
              /\ last' = Done("mark_completed", c) /\ last' # last
                 => /\ commitments'[c].status = "completed"
                    /\ commitments'[c].completed_at
                    /\ \/ self.evidence_type = "self_verification"
                       \/ self.status = "under_review"]_vars

\* C11, its case: mark_completed has completed a reviewed-evidence commitment
\* that was under_review.
C11_Witness ==
    \E c \in Stored :
        /\ last = Done("mark_completed", c)
        /\ commitments[c].status = "completed"
        /\ commitments[c].evidence_type # "self_verification"
        /\ commitments[c].completed_at

\* C12: a commitment reaches completed only from active, and then only with
\* evidence_type self_verification, or from under_review: no step completes a
\* commitment that is draft, paused, failed, appealed or cancelled.
C12_CompletedOnlyFromActiveOrReview ==
    [][\A c \in Stored :
          /\ commitments[c].status # "completed"
          /\ commitments'[c].status = "completed"
          => \/ /\ commitments[c].status = "active"
                /\ commitments[c].evidence_type = "self_verification"
             \/ commitments[c].status = "under_review"]_vars

\* C12, its case: mark_completed has completed a commitment that was never
\* activated.
C12_Witness ==
    \E c \in Stored :
        /\ commitments[c].status = "completed"
        /\ ~commitments[c].activated_at
        /\ last = Done("mark_completed", c)

\* ===================================================== the periodic jobs
\* A table of several commitments, for the jobs that sweep it.
InitRows ==
    /\ capacity = MaxRows
    /\ now = 0
    /\ commitments = <<>>
    /\ origin = <<>>
    /\ spawned = [c \in Ids |-> 0]
    /\ verifications = [c \in Ids |-> NoVerification]
    /\ complaints = <<>>
    /\ appeals = [c \in Ids |-> 0]
    /\ stats = [successful_contracts |-> 0, failed_contracts |-> 0]
    /\ held = <<>>
    /\ last = Done("init", 0)

\* The clock, the Celery beat jobs, and the owner's requests that decide
\* whether a commitment is swept: creation, pause, resume, evidence.
NextSweep ==
    \/ Tick
    \/ perform_create
    \/ \E c \in Stored :
          \/ views_pause(c)
          \/ views_resume(c)
          \/ Commitment_submit_evidence(c)
    \/ auto_activate_commitments
    \/ auto_fail_overdue_commitments

SpecSweep == InitRows /\ [][NextSweep]_vars

\* The table one run of auto_fail_overdue_commitments leaves.
Swept ==
    auto_fail_each(Descending(overdue_commitments(now)),
                   commitments, origin, spawned, now)

\* C13: one run of the auto-fail sweep at time now moves to failed exactly the
\* commitments that are active, have no evidence submitted and whose end_time
\* is more than the grace period before now; every other commitment keeps its
\* status.
C13_SweepFailsExactlyOverdue ==
    \A c \in Stored :
        Swept.commitments[c].status =
            IF /\ commitments[c].status = "active"
               /\ ~commitments[c].evidence_submitted
               /\ commitments[c].end_time + GracePeriod < now
            THEN "failed"
            ELSE commitments[c].status

\* C13, its case: a run of the sweep has failed one commitment and left
\* active another that is as late but has its evidence submitted.
C13_Witness ==
    /\ last = Done("auto_fail_overdue_commitments", 0)
    /\ \E c, d \in Stored :
          /\ commitments[c].status = "failed"
          /\ commitments[d].status = "active"
          /\ commitments[d].evidence_submitted
          /\ commitments[d].end_time + GracePeriod < now

\* ================================== the task-linked variant (apps/commitments)
\* A commitment there is attached to a Task, which holds the deadline.
\* Task.due_date is nullable.
NoDueDate == -1

\* Commitment and the fields of its task the commitment reads or writes.
apps_Commitment(due_date, status, evidence_type, evidence_required) ==
    [due_date |-> due_date, status |-> status,
     evidence_type |-> evidence_type, evidence_required |-> evidence_required,
     evidence_submitted |-> FALSE, activated_at |-> FALSE,
     completed_at |-> FALSE, task_completed |-> FALSE]

\* Commitment.activate
apps_activate(self, t) ==
    IF self.status # "draft" THEN ValueError(self)
    ELSE IF self.due_date # NoDueDate /\ self.due_date <= t THEN ValueError(self)
    ELSE Saved([self EXCEPT !.status = "active", !.activated_at = TRUE])

\* Commitment.submit_evidence; evidence_type "" is no evidence_type given.
apps_submit_evidence(self, evidence_type, t) ==
    IF self.status \notin {"active", "paused"} THEN ValueError(self)
    ELSE IF self.evidence_required /\ evidence_type = "" THEN ValueError(self)
    ELSE IF self.due_date # NoDueDate /\ t > self.due_date THEN ValueError(self)
    ELSE LET typed == IF evidence_type # ""
                      THEN [self EXCEPT !.evidence_type = evidence_type]
                      ELSE self
             sent == [typed EXCEPT !.evidence_submitted = TRUE]
         IN  Saved(IF sent.evidence_type # "self_verification"
                   THEN [sent EXCEPT !.status = "under_review"]
                   ELSE sent)

\* Commitment.mark_completed
apps_mark_completed(self) ==
    IF self.status \in {"completed", "cancelled"} THEN ValueError(self)
    ELSE IF self.status = "failed" THEN ValueError(self)
    ELSE IF self.evidence_type # "self_verification" /\ self.status # "under_review"
         THEN ValueError(self)
    ELSE Saved([self EXCEPT !.status = "completed", !.completed_at = TRUE,
                            !.task_completed = TRUE])

\* Commitment.mark_failed
apps_mark_failed(self) ==
    IF self.status \in {"completed", "cancelled", "failed"} THEN ValueError(self)
    ELSE Saved([self EXCEPT !.status = "failed", !.completed_at = TRUE])

\* Commitment.cancel
apps_cancel(self) ==
    IF self.status \in {"completed", "failed", "cancelled"} THEN ValueError(self)
    ELSE Saved([self EXCEPT !.status = "cancelled"])

\* Commitment.pause
apps_pause(self) ==
    IF self.status \notin {"active", "under_review"} THEN ValueError(self)
    ELSE Saved([self EXCEPT !.status = "paused"])

\* Commitment.resume
apps_resume(self, t) ==
    IF self.status # "paused" THEN ValueError(self)
    ELSE IF self.due_date # NoDueDate /\ t > self.due_date THEN ValueError(self)
    ELSE Saved([self EXCEPT !.status = IF self.evidence_submitted
                                       THEN "under_review" ELSE "active"])

\* The tables of the variant: one commitment is followed, and the clock; the
\* other tables of the model stay empty.
apps_Init ==
    /\ capacity = 1
    /\ now = 0
    /\ commitments = <<>>
    /\ origin = <<>>
    /\ spawned = [c \in Ids |-> 0]
    /\ verifications = [c \in Ids |-> NoVerification]
    /\ complaints = <<>>
    /\ appeals = [c \in Ids |-> 0]
    /\ stats = [successful_contracts |-> 0, failed_contracts |-> 0]
    /\ held = <<>>
    /\ last = Done("init", 0)

\* What the variant's operations leave alone.
apps_frame == <<now, origin, spawned, verifications, complaints, appeals,
                stats, held, capacity>>

\* A view that calls one model method on the row it loaded.
apps_Save(op, c, r) ==
    /\ commitments' = [commitments EXCEPT ![c] = r.obj]
    /\ Record(op, c, r.ok)
    /\ UNCHANGED apps_frame

\* CommitmentSerializer.create: status is a writable field, evidence_submitted
\* is read-only.
apps_create ==
    /\ Len(commitments) < capacity
    /\ \E due_date \in {NoDueDate} \cup (1..MaxTime),
          status \in {"draft", "active"},
          evidence_type \in EVIDENCE_TYPE_CHOICES,
          evidence_required \in BOOLEAN :
          commitments' = Append(commitments,
              apps_Commitment(due_date, status, evidence_type, evidence_required))
    /\ last' = Done("create", Len(commitments) + 1)
    /\ UNCHANGED apps_frame

apps_views_activate(c) == apps_Save("activate", c, apps_activate(commitments[c], now))

apps_views_submit_evidence(c) ==
    \E evidence_type \in EVIDENCE_TYPE_CHOICES \cup {""} :
        apps_Save("submit_evidence", c,
                  apps_submit_evidence(commitments[c], evidence_type, now))

apps_views_complete(c) == apps_Save("complete", c, apps_mark_completed(commitments[c]))

apps_views_fail(c) == apps_Save("fail", c, apps_mark_failed(commitments[c]))

apps_views_pause(c) == apps_Save("pause", c, apps_pause(commitments[c]))

apps_views_resume(c) == apps_Save("resume", c, apps_resume(commitments[c], now))

apps_views_cancel(c) == apps_Save("cancel", c, apps_cancel(commitments[c]))

\* The queryset of check_overdue_commitments at time t.
apps_overdue_commitments(t) ==
    {c \in Stored : /\ commitments[c].status = "active"
                    /\ commitments[c].due_date # NoDueDate
                    /\ commitments[c].due_date < t}

\* check_overdue_commitments: mark_failed on each row of the queryset.
check_overdue_commitments ==
    /\ commitments' = [c \in Stored |->
                         IF c \in apps_overdue_commitments(now)
                         THEN apps_mark_failed(commitments[c]).obj
                         ELSE commitments[c]]
    /\ last' = Done("check_overdue_commitments", 0)
    /\ UNCHANGED apps_frame

apps_Next ==
    \/ Tick
    \/ apps_create
    \/ \E c \in Stored :
          \/ apps_views_activate(c)
          \/ apps_views_submit_evidence(c)
          \/ apps_views_complete(c)
          \/ apps_views_fail(c)
          \/ apps_views_pause(c)
          \/ apps_views_resume(c)
          \/ apps_views_cancel(c)
    \/ check_overdue_commitments

SpecTask == apps_Init /\ [][apps_Next]_vars

\* C14: in the task-linked variant, a run of check_overdue_commitments never
\* moves to failed a commitment whose evidence_submitted is true.
C14_OverdueCheckSparesEvidence ==
    [][last' = Done("check_overdue_commitments", 0)
       => \A c \in Stored :
             /\ commitments[c].evidence_submitted
             /\ commitments[c].status # "failed"
             => commitments'[c].status # "failed"]_vars

\* C14, its case: the overdue check has failed a commitment past its due date.
C14_Witness ==
    /\ last = Done("check_overdue_commitments", 0)
    /\ \E c \in Stored :
          /\ commitments[c].status = "failed"
          /\ commitments[c].due_date # NoDueDate
          /\ commitments[c].due_date < now

\* ------------------------------------------------- the jobs, run for ever
\* Celery beat runs auto_activate_commitments every 15 minutes and
\* auto_fail_overdue_commitments daily, and the clock advances up to the
\* horizon; the owner's requests may or may not come.  One commitment is
\* followed.
SpecLive ==
    /\ Init
    /\ [][NextSweep]_vars
    /\ WF_vars(Tick)
    /\ WF_vars(auto_activate_commitments)
    /\ WF_vars(auto_fail_overdue_commitments)

\* The deadline of row c, grace period included, has passed with no evidence
\* on a commitment that was activated and is neither completed nor cancelled.
MissedDeadline(c) ==
    /\ c \in Stored
    /\ commitments[c].activated_at
    /\ ~commitments[c].evidence_submitted
    /\ commitments[c].end_time + GracePeriod < now
    /\ commitments[c].status \notin {"completed", "cancelled"}

\* C15: with the clock advancing and the sweeper jobs run again and again, a
\* commitment that was activated and whose deadline passes with no evidence
\* submitted is eventually failed, whatever the owner does, unless it was
\* completed or cancelled; a commitment paused at its deadline included.
C15_MissedDeadlineEventuallyFailed ==
    \A c \in 1..MaxRows :
        MissedDeadline(c) ~> (c \in Stored /\ commitments[c].status = "failed")

\* C15, its case: a commitment was paused when its deadline and the grace
\* period passed.
C15_Witness ==
    \E c \in Stored : MissedDeadline(c) /\ commitments[c].status = "paused"

\* ============================================ recurrence, with calendar dates
\* create_next_instance in full: start_time and end_time are datetimes, and
\* every field of the row is kept.

\* calendar.isleap
isleap(year) == year % 4 = 0 /\ (year % 100 # 0 \/ year % 400 = 0)

\* calendar.monthrange(year, month)[1]: the days of the month.
monthrange(year, month) ==
    IF month = 2 THEN (IF isleap(year) THEN 29 ELSE 28)
    ELSE IF month \in {4, 6, 9, 11} THEN 30
    ELSE 31

\* A datetime, to the hour.
datetime(year, month, day, hour) ==
    [year |-> year, month |-> month, day |-> day, hour |-> hour]

\* dt + timedelta(days=1)
tomorrow(dt) ==
    IF dt.day < monthrange(dt.year, dt.month) THEN [dt EXCEPT !.day = dt.day + 1]
    ELSE IF dt.month < 12 THEN [dt EXCEPT !.month = dt.month + 1, !.day = 1]
    ELSE [dt EXCEPT !.year = dt.year + 1, !.month = 1, !.day = 1]

\* dt + timedelta(days=days): the time of day is kept.
RECURSIVE timedelta(_, _)
timedelta(dt, days) ==
    IF days = 0 THEN dt ELSE timedelta(tomorrow(dt), days - 1)

\* dt + timedelta(days=30), in place of a calendar month.
thirty_days(dt, months) == timedelta(dt, 30 * months)

\* dt + relativedelta(months=months), for 0 <= months <= 12: the month is
\* advanced with a carry into the year, and the day is the smaller of the day
\* of dt and the last day of the month reached.
relativedelta(dt, months) ==
    LET carried == dt.month + months > 12
        year == IF carried THEN dt.year + 1 ELSE dt.year
        month == IF carried THEN dt.month + months - 12 ELSE dt.month + months
        day == IF dt.day < monthrange(year, month)
               THEN dt.day ELSE monthrange(year, month)
    IN  datetime(year, month, day, dt.hour)

\* a < b on datetimes
datetime_lt(a, b) ==
    \/ a.year < b.year
    \/ a.year = b.year /\ a.month < b.month
    \/ a.year = b.year /\ a.month = b.month /\ a.day < b.day
    \/ a.year = b.year /\ a.month = b.month /\ a.day = b.day /\ a.hour < b.hour

\* The defaults of the fields of Commitment that create_next_instance may
\* leave out.
field_defaults ==
    [frequency |-> "one_time", custom_days |-> "", stake_type |-> "social",
     stake_amount |-> "NULL", currency |-> "INR", leniency |-> "normal",
     evidence_required |-> TRUE, evidence_type |-> "self_verification",
     evidence_submitted |-> FALSE, evidence_submitted_at |-> FALSE,
     completed_at |-> FALSE, activated_at |-> FALSE, status |-> "draft"]

\* Commitment.objects.create(**kwargs): a field not passed takes its default;
\* the row is refused by the constraint end_time_after_start_time.
objects_create(kwargs) ==
    LET row == [f \in DOMAIN kwargs \cup DOMAIN field_defaults |->
                   IF f \in DOMAIN kwargs THEN kwargs[f] ELSE field_defaults[f]]
    IN  IF datetime_lt(row.start_time, row.end_time)
        THEN [res |-> "created", obj |-> row]
        ELSE [res |-> "IntegrityError", obj |-> row]

\* create_next_instance with weekly taken as daily.
next_instance_weekly_as_daily(self) ==
    IF self.frequency \in {"daily", "weekly"}
    THEN objects_create([self EXCEPT !.start_time = timedelta(self.start_time, 1),
                                     !.end_time = timedelta(self.end_time, 1),
                                     !.status = "active", !.activated_at = TRUE,
                                     !.completed_at = FALSE])
    ELSE [res |-> "None", obj |-> self]

\* Commitment.create_next_instance: res is "None" where the code returns None.
next_instance(self) ==
    IF self.frequency = "one_time" THEN [res |-> "None", obj |-> self]
    ELSE IF self.frequency \notin {"daily", "weekly", "monthly"}
    THEN [res |-> "None", obj |-> self]
    ELSE LET next_start ==
                 IF self.frequency = "daily" THEN timedelta(self.start_time, 1)
                 ELSE IF self.frequency = "weekly" THEN timedelta(self.start_time, 7)
                 ELSE relativedelta(self.start_time, 1)
             next_end ==
                 IF self.frequency = "daily" THEN timedelta(self.end_time, 1)
                 ELSE IF self.frequency = "weekly" THEN timedelta(self.end_time, 7)
                 ELSE relativedelta(self.end_time, 1)
         IN  objects_create(
                 [user |-> self.user, title |-> self.title,
                  description |-> self.description,
                  stake_amount |-> self.stake_amount,
                  currency |-> self.currency,
                  start_time |-> next_start, end_time |-> next_end,
                  frequency |-> self.frequency,
                  custom_days |-> self.custom_days,
                  evidence_type |-> self.evidence_type,
                  evidence_required |-> self.evidence_required,
                  leniency |-> self.leniency,
                  status |-> "active", activated_at |-> TRUE])

\* ---- the parents create_next_instance is applied to
full_frequency_choices == {"daily", "weekly", "monthly", "one_time", "custom"}

\* A row that reached completed or failed.
Parent(window, frequency, terms, status) ==
    [user |-> terms.user, title |-> terms.title,
     description |-> terms.description,
     start_time |-> window[1], end_time |-> window[2],
     frequency |-> frequency,
     custom_days |-> IF frequency = "custom" THEN "MON,WED" ELSE "",
     stake_type |-> terms.stake_type, stake_amount |-> terms.stake_amount,
     currency |-> terms.currency, leniency |-> terms.leniency,
     evidence_required |-> terms.evidence_required,
     evidence_type |-> terms.evidence_type,
     evidence_submitted |-> status = "completed",
     evidence_submitted_at |-> status = "completed",
     completed_at |-> TRUE, activated_at |-> TRUE, status |-> status]

Terms ==
    [user : {"alice", "bob"}, title : {"run", "read"},
     description : {"5 km", ""},
     stake_type : {"social", "points", "money"}, stake_amount : {"NULL", "50.00"},
     currency : {"INR", "USD"}, leniency : {"lenient", "normal", "hard"},
     evidence_required : BOOLEAN,
     evidence_type : {"self_verification", "photo"}]

\* The model's defaults where the serializer lets them stand, a money stake.
usual_terms ==
    [user |-> "alice", title |-> "run", description |-> "5 km",
     stake_type |-> "money", stake_amount |-> "50.00", currency |-> "INR",
     leniency |-> "normal", evidence_required |-> TRUE,
     evidence_type |-> "self_verification"]

\* A stored window that starts at start_time: it ends the same evening, or
\* the next day at the same time.
Window(start_time, overnight) ==
    <<start_time,
      IF overnight THEN timedelta(start_time, 1) ELSE [start_time EXCEPT !.hour = 23]>>

\* A table that holds one parent: a window on any date with the usual terms,
\* or any terms with a window that starts on January 31.
InitParent ==
    /\ capacity = 2
    /\ now = 0
    /\ \/ \E year \in FirstYear..LastYear, month \in 1..12, day \in 1..31,
             hour \in {9, 18}, overnight \in BOOLEAN,
             frequency \in full_frequency_choices,
             status \in {"completed", "failed"} :
             /\ day <= monthrange(year, month)
             /\ commitments = <<Parent(Window(datetime(year, month, day, hour),
                                              overnight),
                                       frequency, usual_terms, status)>>
       \/ \E frequency \in full_frequency_choices, terms \in Terms :
             commitments = <<Parent(Window(datetime(FirstYear, 1, 31, 9), TRUE),
                                    frequency, terms, "failed")>>
    /\ origin = <<0>>
    /\ spawned = [c \in Ids |-> 0]
    /\ verifications = [c \in Ids |-> NoVerification]
    /\ complaints = <<>>
    /\ appeals = [c \in Ids |-> 0]
    /\ stats = [successful_contracts |-> 0, failed_contracts |-> 0]
    /\ held = <<>>
    /\ last = Done("init", 0)

\* commitment.create_next_instance() on the parent, once.
Commitment_create_next_instance ==
    /\ last = Done("init", 0)
    /\ LET out == next_instance(commitments[1])
       IN  /\ commitments' = IF out.res = "created"
                             THEN Append(commitments, out.obj)
                             ELSE commitments
           /\ origin' = IF out.res = "created" THEN Append(origin, 1) ELSE origin
           /\ spawned' = IF out.res = "created"
                         THEN [spawned EXCEPT ![1] = 1] ELSE spawned
           /\ last' = Done(IF out.res = "IntegrityError"
                           THEN "IntegrityError"
                           ELSE "create_next_instance", 1)
    /\ UNCHANGED <<now, verifications, complaints, appeals, stats, held, capacity>>

NextParent == Commitment_create_next_instance

SpecParent == InitParent /\ [][NextParent]_vars

\* ---- the calendar, counted in days
RECURSIVE DaysBeforeYear(_)
DaysBeforeYear(year) ==
    IF year <= 2000 THEN 0
    ELSE (IF isleap(year - 1) THEN 366 ELSE 365) + DaysBeforeYear(year - 1)

RECURSIVE DaysBeforeMonth(_, _)
DaysBeforeMonth(year, month) ==
    IF month = 1 THEN 0
    ELSE monthrange(year, month - 1) + DaysBeforeMonth(year, month - 1)

\* The days from the first of January 2000 to dt.
Ordinal(dt) ==
    DaysBeforeYear(dt.year) + DaysBeforeMonth(dt.year, dt.month) + dt.day

\* b is exactly days days after a, at the same time of day, and is a date.
DaysLater(a, b, days) ==
    /\ b.month \in 1..12
    /\ b.day \in 1..monthrange(b.year, b.month)
    /\ Ordinal(b) = Ordinal(a) + days
    /\ b.hour = a.hour

\* create_next_instance has been applied to the parent.
Applied == last.op # "init"

\* C16: create_next_instance returns no successor and creates no record for a
\* one_time commitment; for daily it creates one successor with start_time and
\* end_time each exactly 1 day later, for weekly exactly 7 days later; the
\* successor has status active and activated_at set.
C16_NextInstanceDailyWeekly ==
    Applied =>
        LET parent == commitments[1]
            days == IF parent.frequency = "daily" THEN 1 ELSE 7
        IN  /\ parent.frequency = "one_time"
               => Len(commitments) = 1 /\ last.op = "create_next_instance"
            /\ parent.frequency \in {"daily", "weekly"}
               => /\ Len(commitments) = 2
                  /\ DaysLater(parent.start_time, commitments[2].start_time, days)
                  /\ DaysLater(parent.end_time, commitments[2].end_time, days)
            /\ Len(commitments) = 2
               => /\ commitments[2].status = "active"
                  /\ commitments[2].activated_at

\* C16, its case: a weekly parent whose successor starts in the next month.
C16_Witness ==
    /\ Applied
    /\ Len(commitments) = 2
    /\ commitments[1].frequency = "weekly"
    /\ commitments[2].start_time.month # commitments[1].start_time.month
    /\ commitments[2].status = "active"

\* C17: the successor of a monthly commitment starts on the same day of the
\* month one calendar month later, or on the last day of that month where it
\* has no such day, at the same time of day: January 31 gives February 28 in a
\* common year and February 29 in a leap year.
C17_MonthlyClampsToMonthEnd ==
    Applied /\ commitments[1].frequency = "monthly" /\ Len(commitments) = 2 =>
        LET was == commitments[1].start_time
            is == commitments[2].start_time
            last_day == monthrange(is.year, is.month)
        IN  /\ <<is.year, is.month>> = IF was.month = 12
                                       THEN <<was.year + 1, 1>>
                                       ELSE <<was.year, was.month + 1>>
            /\ is.day = IF was.day <= last_day THEN was.day ELSE last_day
            /\ is.hour = was.hour
            /\ was.month = 1 /\ was.day = 31
               => is.month = 2 /\ is.day = IF was.year % 4 = 0 THEN 29 ELSE 28

\* C17, its case: a monthly parent starting on January 31 of a common year has
\* a successor starting on February 28.
C17_Witness ==
    /\ Applied
    /\ Len(commitments) = 2
    /\ commitments[1].frequency = "monthly"
    /\ commitments[1].start_time.month = 1
    /\ commitments[1].start_time.day = 31
    /\ ~isleap(commitments[1].start_time.year)
    /\ commitments[2].start_time.month = 2
    /\ commitments[2].start_time.day = 28

\* C18: a successor carries the terms of its parent: owner, title,
\* description, stake type, stake amount, currency, leniency, frequency,
\* evidence_required and evidence_type.
C18_SuccessorKeepsTerms ==
    Applied /\ Len(commitments) = 2 =>
        \A f \in {"user", "title", "description", "stake_type", "stake_amount",
                  "currency", "leniency", "frequency", "evidence_required",
                  "evidence_type"} :
            commitments[2][f] = commitments[1][f]

\* C18, its case: a parent with a money stake has a successor.
C18_Witness ==
    /\ Applied
    /\ Len(commitments) = 2
    /\ commitments[1].stake_type = "money"
    /\ commitments[1].stake_amount = "50.00"
    /\ commitments[2].stake_amount = "50.00"

\* ================================================ complaints, with the refund
\* Complaint.approve and ComplaintService.create_complaint in full: the
\* reviewer, the refund and the counters of UserStatistics are kept.

\* Decimal amounts, and None.
Amounts == {"None", "0.00", "30.00", "50.00", "80.00"}

\* The value of an amount that is not None, in hundredths.
hundredths(amount) ==
    CASE amount = "0.00" -> 0
      [] amount = "30.00" -> 3000
      [] amount = "50.00" -> 5000
      [] amount = "80.00" -> 8000

\* Complaint.objects.create(user, commitment, ...)
Complaint(commitment) ==
    [commitment |-> commitment, status |-> "pending", reviewed_by |-> "None",
     reviewed_at |-> FALSE, refund_amount |-> "None", refund_processed |-> FALSE]

\* Complaint.approve with "if refund_amount:" for "if refund_amount is not None:".
approve_falsy_refund(self, commitment, reviewed_by, refund_amount) ==
    IF self.status \in {"approved", "rejected"}
    THEN [ok |-> FALSE, obj |-> self, commitment |-> commitment]
    ELSE [ok |-> TRUE,
          obj |-> [self EXCEPT !.status = "approved",
                               !.reviewed_by = reviewed_by,
                               !.reviewed_at = TRUE,
                               !.refund_amount =
                                   IF refund_amount \notin {"None", "0.00"}
                                   THEN refund_amount
                                   ELSE commitment.stake_amount],
          commitment |-> IF commitment.status = "failed"
                         THEN [commitment EXCEPT !.status = "appealed"]
                         ELSE commitment]

\* Complaint.approve(reviewed_by, review_notes, refund_amount); commitment is
\* self.commitment.
approve(self, commitment, reviewed_by, refund_amount) ==
    IF self.status \in {"approved", "rejected"}
    THEN [ok |-> FALSE, obj |-> self, commitment |-> commitment]
    ELSE [ok |-> TRUE,
          obj |-> [self EXCEPT !.status = "approved",
                               !.reviewed_by = reviewed_by,
                               !.reviewed_at = TRUE,
                               !.refund_amount =
                                   IF refund_amount # "None"
                                   THEN refund_amount
                                   ELSE commitment.stake_amount],
          commitment |-> IF commitment.status = "failed"
                         THEN [commitment EXCEPT !.status = "appealed"]
                         ELSE commitment]

\* create_complaint that also takes an appealed commitment.
create_complaint_or_appealed(commitment) == commitment.status \in {"failed", "appealed"}

\* ComplaintService.create_complaint: TRUE where it does not raise ValueError.
create_complaint(commitment) == commitment.status \in {"failed"}

\* ComplaintReviewSerializer.validate for action approve: "ok", or the
\* exception it ends with.
validate_refund(refund_amount, stake_amount) ==
    IF refund_amount \in {"None", "0.00"} THEN "ok"
    ELSE IF stake_amount = "None" THEN "TypeError"
    ELSE IF hundredths(refund_amount) > hundredths(stake_amount)
    THEN "ValidationError"
    ELSE "ok"

\* The request that committed last, with its arguments.
Called(op, k, reviewed_by, refund_amount) ==
    [op |-> op, k |-> k, reviewed_by |-> reviewed_by,
     refund_amount |-> refund_amount]

\* One commitment in any status, no complaint yet.
InitComplaint ==
    /\ capacity = 1
    /\ now = 0
    /\ \E status \in STATUS_CHOICES, stake_amount \in {"None", "50.00"} :
          commitments = <<[status |-> status, stake_amount |-> stake_amount]>>
    /\ origin = <<0>>
    /\ spawned = [c \in Ids |-> 0]
    /\ verifications = [c \in Ids |-> NoVerification]
    /\ complaints = <<>>
    /\ appeals = [c \in Ids |-> 0]
    /\ stats = [complaints_applied |-> 0, complaints_approved |-> 0]
    /\ held = <<>>
    /\ last = Called("init", 0, "None", "None")

complaint_frame == <<now, origin, spawned, verifications, appeals, held, capacity>>

\* The rows and the counter after create_complaint returned or raised.
Filed(op, ok) ==
    /\ complaints' = IF ok THEN Append(complaints, Complaint(1)) ELSE complaints
    /\ stats' = IF ok THEN [stats EXCEPT !.complaints_applied = @ + 1] ELSE stats
    /\ last' = IF ok THEN Called(op, Len(complaints) + 1, "None", "None")
               ELSE last
    /\ UNCHANGED <<commitments, complaint_frame>>

\* ComplaintService.create_complaint, called with the commitment.
ComplaintService_create ==
    /\ Len(complaints) < MaxComplaints
    /\ Filed("create_complaint", create_complaint(commitments[1]))

\* ComplaintViewSet.create: ComplaintCreateSerializer, then the service.
ComplaintViewSet_create ==
    /\ Len(complaints) < MaxComplaints
    /\ Filed("perform_create", /\ commitments[1].status = "failed"
                                /\ complaints = <<>>
                                /\ create_complaint(commitments[1]))

\* ComplaintAdmin change form: the status of a complaint taken under review.
ComplaintAdmin_change(k) ==
    /\ complaints[k].status = "pending"
    /\ complaints' = [complaints EXCEPT ![k].status = "under_review"]
    /\ last' = Called("change", k, "None", "None")
    /\ UNCHANGED <<commitments, stats, complaint_frame>>

\* What approve saved on complaint k and on its parent.
Reviewed(k, a, counted, reviewed_by, refund_amount) ==
    /\ complaints' = [complaints EXCEPT ![k] = a.obj]
    /\ commitments' = [commitments EXCEPT ![1] = a.commitment]
    /\ stats' = IF a.ok /\ counted
                THEN [stats EXCEPT !.complaints_approved = @ + 1] ELSE stats
    /\ last' = IF a.ok THEN Called("approve", k, reviewed_by, refund_amount)
               ELSE last
    /\ UNCHANGED complaint_frame

\* ComplaintAdmin.approve_complaints on complaint k: no refund_amount given,
\* no statistics.
ComplaintAdmin_approve_complaints(k) ==
    /\ complaints[k].status \in {"pending", "under_review"}
    /\ \E reviewed_by \in {"admin", "staff"} :
          Reviewed(k, approve(complaints[k], commitments[1], reviewed_by, "None"),
                   FALSE, reviewed_by, "None")

\* ComplaintViewSet.review with action approve: the resolved complaint and
\* the refused refund_amount end the request; else the service approves.
ComplaintViewSet_review(k) ==
    \E reviewed_by \in {"admin", "staff"}, refund_amount \in Amounts :
        IF \/ complaints[k].status \in {"approved", "rejected"}
           \/ validate_refund(refund_amount, commitments[1].stake_amount) # "ok"
        THEN UNCHANGED vars
        ELSE Reviewed(k, approve(complaints[k], commitments[1], reviewed_by,
                                 refund_amount),
                      TRUE, reviewed_by, refund_amount)

NextComplaint ==
    \/ ComplaintService_create
    \/ ComplaintViewSet_create
    \/ \E k \in 1..Len(complaints) :
          \/ ComplaintAdmin_change(k)
          \/ ComplaintAdmin_approve_complaints(k)
          \/ ComplaintViewSet_review(k)

SpecComplaint == InitComplaint /\ [][NextComplaint]_vars

\* C19: approving a pending or under_review complaint leaves it approved with
\* the reviewer and reviewed_at set and refund_amount equal to the amount
\* given, or to the parent's stake_amount when none is given; a failed parent
\* becomes appealed, and a parent that is not failed keeps its status.
C19_ApproveSetsRefundAndAppeals ==
    [][\A k \in 1..Len(complaints) :
          LET self == complaints[k]
              parent == commitments[1]
          IN  /\ self.status \in {"pending", "under_review"}
                 => \A reviewed_by \in {"admin", "staff"}, amount \in Amounts :
                       LET a == approve(self, parent, reviewed_by, amount)
                       IN  /\ a.ok
                           /\ a.obj.status = "approved"
                           /\ a.obj.reviewed_by = reviewed_by
                           /\ a.obj.reviewed_at
                           /\ a.obj.refund_amount =
                                  IF amount = "None" THEN parent.stake_amount
                                  ELSE amount
                           /\ a.commitment.status =
                                  IF parent.status = "failed" THEN "appealed"
                                  ELSE parent.status
              /\ last'.op = "approve" /\ last'.k = k /\ complaints'[k] # self
                 => /\ self.status \in {"pending", "under_review"}
                    /\ complaints'[k].status = "approved"
                    /\ complaints'[k].reviewed_by = last'.reviewed_by
                    /\ complaints'[k].reviewed_at
                    /\ complaints'[k].refund_amount =
                           IF last'.refund_amount = "None"
                           THEN parent.stake_amount
                           ELSE last'.refund_amount
                    /\ commitments'[1].status =
                           IF parent.status = "failed" THEN "appealed"
                           ELSE parent.status]_vars

\* C19, its case: a complaint approved with no amount given has the full
\* stake as its refund, and its parent is appealed.
C19_Witness ==
    /\ last.op = "approve"
    /\ last.refund_amount = "None"
    /\ complaints[last.k].status = "approved"
    /\ complaints[last.k].refund_amount = "50.00"
    /\ complaints[last.k].reviewed_by = "staff"
    /\ commitments[1].status = "appealed"

\* C20: create_complaint on a commitment whose status is not failed creates no
\* complaint and changes no statistics.
C20_ComplaintOnlyOnFailed ==
    [][/\ commitments[1].status # "failed"
          => /\ ~create_complaint(commitments[1])
             /\ Len(complaints') = Len(complaints)
             /\ stats'.complaints_applied = stats.complaints_applied
       /\ Len(complaints') > Len(complaints)
          => /\ commitments[1].status = "failed"
             /\ stats'.complaints_applied = stats.complaints_applied + 1]_vars

\* C20, its case: a complaint was filed on a failed commitment, and a
\* commitment that was appealed since holds no more than it had.
C20_Witness ==
    /\ commitments[1].status = "appealed"
    /\ Len(complaints) = 1
    /\ stats.complaints_applied = 1

\* ======================================= complaints, with requests in flight
\* The complaint requests of one owner and the admins on one commitment, the
\* pending-refund job, and a request that has read its rows and not yet
\* written: no row is locked and Complaint has no unique constraint.

\* Complaint.reject that also clears the refund.
reject_clearing_refund(self, reviewed_by) ==
    IF self.status \in {"approved", "rejected"} THEN ValueError(self)
    ELSE Saved([self EXCEPT !.status = "rejected", !.reviewed_by = reviewed_by,
                            !.reviewed_at = TRUE, !.refund_amount = "0.00"])

\* Complaint.reject(reviewed_by, review_notes)
reject(self, reviewed_by) ==
    IF self.status \in {"approved", "rejected"} THEN ValueError(self)
    ELSE Saved([self EXCEPT !.status = "rejected", !.reviewed_by = reviewed_by,
                            !.reviewed_at = TRUE])

\* Complaint.process_refund
process_refund(self) ==
    IF self.status # "approved" THEN ValueError(self)
    ELSE IF self.refund_processed THEN ValueError(self)
    ELSE Saved([self EXCEPT !.refund_processed = TRUE])

\* The rows process_pending_refunds and mark_refund_processed select.
pending_refunds(rows) ==
    {k \in 1..Len(rows) : rows[k].status = "approved" /\ ~rows[k].refund_processed}

\* One commitment in any status, no complaint yet, no request in flight.
\* refunds counts, for each complaint, the calls of process_refund that
\* returned: the refunds paid.
InitDesk ==
    /\ capacity = 1
    /\ now = 0
    /\ \E status \in STATUS_CHOICES, stake_amount \in {"None", "50.00"} :
          commitments = <<[status |-> status, stake_amount |-> stake_amount]>>
    /\ origin = <<0>>
    /\ spawned = [c \in Ids |-> 0]
    /\ verifications = [c \in Ids |-> NoVerification]
    /\ complaints = <<>>
    /\ appeals = [c \in Ids |-> 0]
    /\ stats = [complaints_applied |-> 0, complaints_approved |-> 0,
                complaints_rejected |-> 0,
                refunds |-> [k \in 1..MaxComplaints |-> 0]]
    /\ held = <<>>
    /\ last = Called("init", 0, "None", "None")

desk_frame == <<now, origin, spawned, verifications, appeals, capacity>>

\* ComplaintViewSet.create, first step: ComplaintCreateSerializer accepts the
\* commitment it loaded (failed, no complaint of the owner on it yet).
validate_commitment_loaded ==
    /\ held = <<>>
    /\ commitments[1].status = "failed"
    /\ complaints = <<>>
    /\ held' = << [op |-> "create", obj |-> commitments[1]] >>
    /\ UNCHANGED <<commitments, complaints, stats, last, desk_frame>>

\* ComplaintViewSet.create, second step: perform_create calls the service
\* with the instance the serializer loaded.
perform_create_loaded ==
    /\ held # <<>>
    /\ Head(held).op = "create"
    /\ LET ok == create_complaint(Head(held).obj)
       IN  /\ complaints' = IF ok THEN Append(complaints, Complaint(1))
                            ELSE complaints
           /\ stats' = IF ok THEN [stats EXCEPT !.complaints_applied = @ + 1]
                       ELSE stats
           /\ last' = IF ok
                      THEN Called("perform_create_loaded", Len(complaints) + 1,
                                  "None", "None")
                      ELSE last
    /\ held' = <<>>
    /\ UNCHANGED <<commitments, desk_frame>>

\* What reject saved on complaint k.
Rejected(op, k, r, counted, reviewed_by) ==
    /\ complaints' = [complaints EXCEPT ![k] = r.obj]
    /\ stats' = IF r.ok /\ counted
                THEN [stats EXCEPT !.complaints_rejected = @ + 1] ELSE stats
    /\ last' = IF r.ok THEN Called(op, k, reviewed_by, "None") ELSE last
    /\ UNCHANGED <<commitments, held, desk_frame>>

\* ComplaintViewSet.review with action reject.
ComplaintViewSet_review_reject(k) ==
    \E reviewed_by \in {"admin", "staff"} :
        IF complaints[k].status \in {"approved", "rejected"}
        THEN UNCHANGED vars
        ELSE Rejected("reject", k, reject(complaints[k], reviewed_by), TRUE,
                      reviewed_by)

\* ComplaintAdmin.reject_complaints on complaint k: no statistics.
ComplaintAdmin_reject_complaints(k) ==
    /\ complaints[k].status \in {"pending", "under_review"}
    /\ \E reviewed_by \in {"admin", "staff"} :
          Rejected("reject_complaints", k, reject(complaints[k], reviewed_by),
                   FALSE, reviewed_by)

\* The rows and the refunds paid after process_refund ran on the instances
\* rows[k], k in ids: save() writes every field of the instance.
Refunded(op, ids, rows) ==
    /\ complaints' = [k \in 1..Len(complaints) |->
                         IF k \in ids /\ process_refund(rows[k]).ok
                         THEN process_refund(rows[k]).obj
                         ELSE complaints[k]]
    /\ stats' = [stats EXCEPT !.refunds =
                    [k \in 1..MaxComplaints |->
                        IF k \in ids /\ process_refund(rows[k]).ok
                        THEN @[k] + 1 ELSE @[k]]]
    /\ last' = IF \E k \in ids : process_refund(rows[k]).ok
               THEN Called(op, 0, "None", "None") ELSE last
    /\ UNCHANGED <<commitments, desk_frame>>

\* ComplaintViewSet.process_refund
ComplaintViewSet_process_refund(k) ==
    /\ Refunded("process_refund", {k}, complaints)
    /\ UNCHANGED held

\* ComplaintAdmin.mark_refund_processed on complaint k
ComplaintAdmin_mark_refund_processed(k) ==
    /\ k \in pending_refunds(complaints)
    /\ Refunded("mark_refund_processed", {k}, complaints)
    /\ UNCHANGED held

\* process_pending_refunds, run at once.
process_pending_refunds ==
    /\ Refunded("process_pending_refunds", pending_refunds(complaints), complaints)
    /\ UNCHANGED held

\* process_pending_refunds, first step: the queryset is read.
process_pending_refunds_load ==
    /\ held = <<>>
    /\ pending_refunds(complaints) # {}
    /\ held' = << [op |-> "refunds", obj |-> complaints] >>
    /\ UNCHANGED <<commitments, complaints, stats, last, desk_frame>>

\* process_pending_refunds, second step: the loop over the rows as read.
process_pending_refunds_loaded ==
    /\ held # <<>>
    /\ Head(held).op = "refunds"
    /\ Refunded("process_pending_refunds_loaded",
                pending_refunds(Head(held).obj), Head(held).obj)
    /\ held' = <<>>

NextDesk ==
    \/ ComplaintViewSet_create
    \/ validate_commitment_loaded
    \/ perform_create_loaded
    \/ \E k \in 1..Len(complaints) :
          \/ ComplaintAdmin_change(k)
          \/ ComplaintAdmin_approve_complaints(k)
          \/ ComplaintViewSet_review(k)
          \/ ComplaintViewSet_review_reject(k)
          \/ ComplaintAdmin_reject_complaints(k)
          \/ ComplaintViewSet_process_refund(k)
          \/ ComplaintAdmin_mark_refund_processed(k)
    \/ process_pending_refunds
    \/ process_pending_refunds_load
    \/ process_pending_refunds_loaded

SpecDesk == InitDesk /\ [][NextDesk]_vars

\* The open complaints of the owner on the commitment.
OpenComplaints ==
    {k \in 1..Len(complaints) : complaints[k].status \in {"pending", "under_review"}}

\* C21: in every reachable state, concurrent filings included, there is at
\* most one open (pending or under_review) complaint of a user on a
\* commitment.
C21_OneOpenComplaint == Cardinality(OpenComplaints) <= 1

\* C21, its case: a filing that was validated before another one committed
\* has committed too.
C21_Witness ==
    /\ last.op = "perform_create_loaded"
    /\ Len(complaints) = 2
    /\ stats.complaints_applied = 2

\* C22: process_refund fails and changes nothing on a complaint that is not
\* approved or has refund_processed set, and under any interleaving of the
\* pending-refund job with an admin's process_refund the refund of a
\* complaint is performed once.
C22_RefundOnce ==
    [][\A k \in 1..Len(complaints) :
          /\ complaints[k].status # "approved" \/ complaints[k].refund_processed
             => /\ ~process_refund(complaints[k]).ok
                /\ process_refund(complaints[k]).obj = complaints[k]
          /\ stats'.refunds[k] <= 1]_vars

\* C22, its case: the job and an admin have both performed the refund of one
\* complaint.
C22_Witness ==
    /\ last.op = "process_pending_refunds_loaded"
    /\ \E k \in 1..Len(complaints) :
          /\ complaints[k].refund_processed
          /\ stats.refunds[k] = 2

\* C23: rejecting a complaint leaves the parent commitment unchanged and
\* leaves refund_amount and refund_processed of the complaint unchanged; only
\* status, reviewer and reviewed_at of the complaint change.
C23_RejectFrame ==
    [][\A k \in 1..Len(complaints) :
          /\ \A reviewed_by \in {"admin", "staff"} :
                LET r == reject(complaints[k], reviewed_by)
                IN  /\ r.ok <=> complaints[k].status \in {"pending", "under_review"}
                    /\ r.obj.refund_amount = complaints[k].refund_amount
                    /\ r.obj.refund_processed = complaints[k].refund_processed
                    /\ r.obj.commitment = complaints[k].commitment
          /\ complaints[k].status # "rejected" /\ complaints'[k].status = "rejected"
             => /\ commitments' = commitments
                /\ complaints'[k] = [complaints[k] EXCEPT
                                        !.status = "rejected",
                                        !.reviewed_by = last'.reviewed_by,
                                        !.reviewed_at = TRUE]
                /\ \A j \in 1..Len(complaints) : j # k => complaints'[j] = complaints[j]]_vars

\* C23, its case: a complaint on a failed commitment was rejected.
C23_Witness ==
    /\ last.op = "reject"
    /\ complaints[last.k].status = "rejected"
    /\ complaints[last.k].reviewed_by = "staff"
    /\ complaints[last.k].reviewed_at
    /\ commitments[1].status = "failed"

MaxLate == 4

MaxReminders == 2

\* ================================================== notifications that fail
\* The operations that complete or fail a commitment, with the outcome of the
\* notification they send: delay is what send_commitment_notification.delay
\* does ("queued", or "raises" when the broker is away), sync what the task
\* does when called in the request ("sent" or "raises").
NotifierOutcomes == {"queued", "raises"}

SyncOutcomes == {"sent", "raises"}

\* send_notification_with_fallback: both exceptions are caught and logged.
send_notification_with_fallback(delay, sync) ==
    IF delay = "queued" THEN "returned"
    ELSE IF sync = "sent" THEN "returned"
    ELSE "returned"

\* The outcome out of a service on commitment, once its notification call
\* has returned or raised.
Notifying(out, commitment, delay, sync) ==
    IF out.res # "ok" THEN out
    ELSE IF send_notification_with_fallback(delay, sync) = "returned" THEN out
    ELSE RolledBack("Exception", commitment)

\* The request that committed last, with what its notification did.
Notified(op, c, delay) == [op |-> op, c |-> c, delay |-> delay]

\* CommitmentViewSet.mark_completed
CommitmentViewSet_mark_completed(c) ==
    \E evidence_type \in EVIDENCE_TYPE_CHOICES \cup {""}, evidence_text \in BOOLEAN,
       delay \in NotifierOutcomes, sync \in SyncOutcomes :
        LET s == CommitmentService_complete_commitment(commitments[c], evidence_type,
                                                       evidence_text, now)
            out == Notifying(s.out, commitments[c], delay, sync)
        IN  /\ Apply(c, out)
            /\ verifications' = IF s.verified /\ out.res = "ok"
                                THEN [verifications EXCEPT ![c] = "pending"]
                                ELSE verifications
            /\ last' = IF out.res = "ok"
                       THEN Notified("complete_commitment", c, delay) ELSE last
            /\ UNCHANGED <<frame, complaints, appeals>>

\* CommitmentViewSet.mark_failed
CommitmentViewSet_mark_failed(c) ==
    \E delay \in NotifierOutcomes, sync \in SyncOutcomes :
        LET out == Notifying(CommitmentService_mark_commitment_failed(commitments[c]),
                             commitments[c], delay, sync)
        IN  /\ Apply(c, out)
            /\ last' = IF out.res = "ok"
                       THEN Notified("mark_commitment_failed", c, delay) ELSE last
            /\ UNCHANGED <<frame, verifications, complaints, appeals>>

\* EvidenceVerificationViewSet.verify with action approve or reject.
EvidenceVerificationViewSet_verify(c) ==
    /\ verifications[c] # NoVerification
    /\ \E delay \in NotifierOutcomes, sync \in SyncOutcomes :
          \/ LET s == EvidenceVerificationService_approve_evidence(verifications[c],
                                                                   commitments[c])
                 out == Notifying(s.out, commitments[c], delay, sync)
             IN  /\ Apply(c, out)
                 /\ verifications' = IF out.res = "ok"
                                     THEN [verifications EXCEPT ![c] = s.status]
                                     ELSE verifications
                 /\ last' = IF out.res = "ok"
                            THEN Notified("approve_evidence", c, delay) ELSE last
          \/ LET s == EvidenceVerificationService_reject_evidence(verifications[c],
                                                                  commitments[c])
                 out == Notifying(s.out, commitments[c], delay, sync)
             IN  /\ Apply(c, out)
                 /\ verifications' = IF out.res = "ok"
                                     THEN [verifications EXCEPT ![c] = s.status]
                                     ELSE verifications
                 /\ last' = IF out.res = "ok"
                            THEN Notified("reject_evidence", c, delay) ELSE last
    /\ UNCHANGED <<frame, complaints, appeals>>

RECURSIVE auto_fail_each_notifying(_, _, _, _, _, _)
\* The loop of auto_fail_overdue_commitments over the rows ids:
\* auto_fail_if_overdue saves the row, then the notification is queued with
\* .delay, then the successor is created; an exception at any of them ends
\* the turn of the row, and what was saved stays. raising holds the rows on
\* which .delay raises.
auto_fail_each_notifying(ids, cs, og, sp, t, raising) ==
    IF ids = <<>> THEN [commitments |-> cs, origin |-> og, spawned |-> sp]
    ELSE LET c == Head(ids)
             r == auto_fail_if_overdue(cs[c], t)
             next == IF r.ok /\ c \notin raising /\ r.obj.frequency # "one_time"
                     THEN create_next_instance(r.obj)
                     ELSE <<>>
         IN  IF r.ok
             THEN auto_fail_each_notifying(Tail(ids),
                                           Created([cs EXCEPT ![c] = r.obj], next),
                                           CreatedOrigin(og, c, next),
                                           [sp EXCEPT ![c] = @ + Len(next)], t, raising)
             ELSE auto_fail_each_notifying(Tail(ids), cs, og, sp, t, raising)

\* auto_fail_overdue_commitments
auto_fail_overdue_commitments_notifying ==
    \E raising \in SUBSET Stored :
        LET swept == auto_fail_each_notifying(Descending(overdue_commitments(now)),
                                              commitments, origin, spawned, now,
                                              raising)
            delay == IF \E c \in raising : swept.commitments[c] # commitments[c]
                     THEN "raises" ELSE "queued"
        IN  /\ \A c \in Ids : swept.spawned[c] <= MaxSpawn
            /\ commitments' = swept.commitments
            /\ origin' = swept.origin
            /\ spawned' = swept.spawned
            /\ last' = IF commitments' # commitments
                       THEN Notified("auto_fail_overdue_commitments", 0, delay)
                       ELSE last
            /\ UNCHANGED <<stats, frame, verifications, complaints, appeals>>

NextNotify ==
    \/ Tick
    \/ perform_create
    \/ \E c \in Stored :
          \/ CommitmentViewSet_mark_completed(c)
          \/ CommitmentViewSet_mark_failed(c)
          \/ EvidenceVerificationViewSet_verify(c)
    \/ auto_fail_overdue_commitments_notifying

SpecNotify == Init /\ [][NextNotify]_vars

\* C24: when the notification of a completing or failing operation raises,
\* the transition to completed or failed still stands and the successor of a
\* recurring commitment is still spawned.
C24_NotifierFailureHarmless ==
    [][\A c \in Stored :
          /\ \A delay \in NotifierOutcomes, sync \in SyncOutcomes :
                send_notification_with_fallback(delay, sync) = "returned"
          /\ "delay" \in DOMAIN last' /\ last'.delay = "raises"
             /\ commitments[c].status \notin {"completed", "failed"}
             /\ commitments'[c].status \in {"completed", "failed"}
             /\ commitments[c].frequency # "one_time"
             => spawned'[c] = spawned[c] + 1]_vars

\* C24, its case: a service failed a recurring commitment while its
\* notification raised, and the successor was spawned.
C24_Witness ==
    /\ last = Notified("mark_commitment_failed", 1, "raises")
    /\ commitments[1].status = "failed"
    /\ commitments[1].frequency = "daily"
    /\ spawned[1] = 1

\* ================================================== the reminder job
\* now + timedelta(hours=24), in the unit of the clock.
ReminderWindow == 1

\* The queryset of send_deadline_reminders at time t.
upcoming_deadlines(t) ==
    {c \in Stored : /\ commitments[c].status = "active"
                    /\ commitments[c].end_time >= t
                    /\ commitments[c].end_time <= t + ReminderWindow
                    /\ ~commitments[c].evidence_submitted}

RECURSIVE remind_each(_, _, _)
\* The loop of send_deadline_reminders over the rows ids: one .delay for
\* each row, outside any try block, so the first that raises ends the job.
\* sent counts the reminders queued for each row.
remind_each(ids, sent, raising) ==
    IF ids = <<>> THEN sent
    ELSE IF Head(ids) \in raising THEN sent
    ELSE remind_each(Tail(ids), [sent EXCEPT ![Head(ids)] = @ + 1], raising)

\* A run of the reminder job: the rows it selected and those on which
\* .delay raised.
Reminded(selected, raising) ==
    [op |-> "send_deadline_reminders", selected |-> selected, raising |-> raising]

InitRemind ==
    /\ capacity = MaxRows
    /\ now = 0
    /\ commitments = <<>>
    /\ origin = <<>>
    /\ spawned = [c \in Ids |-> 0]
    /\ verifications = [c \in Ids |-> NoVerification]
    /\ complaints = <<>>
    /\ appeals = [c \in Ids |-> 0]
    /\ stats = [reminders |-> [c \in 1..MaxRows |-> 0]]
    /\ held = <<>>
    /\ last = Done("init", 0)

\* send_deadline_reminders
send_deadline_reminders ==
    \E raising \in SUBSET upcoming_deadlines(now) :
        /\ upcoming_deadlines(now) # {}
        /\ \A c \in upcoming_deadlines(now) : stats.reminders[c] < MaxReminders
        /\ stats' = [stats EXCEPT !.reminders =
                        remind_each(Descending(upcoming_deadlines(now)), @, raising)]
        /\ last' = Reminded(upcoming_deadlines(now), raising)
        /\ UNCHANGED <<commitments, origin, spawned, verifications, complaints,
                       appeals, frame>>

NextRemind ==
    \/ Tick
    \/ perform_create
    \/ \E c \in Stored : Commitment_submit_evidence(c)
    \/ auto_activate_commitments
    \/ auto_fail_overdue_commitments_notifying
    \/ send_deadline_reminders

SpecRemind == InitRemind /\ [][NextRemind]_vars

\* C25: in a sweeper job, an item whose processing raises does not keep the
\* other selected items from being processed: a run of the reminder job
\* queues a reminder for every selected row on which nothing raised, and a
\* run of the auto-fail job fails every overdue row.
C25_FailingItemSparesBatch ==
    [][/\ "raising" \in DOMAIN last' /\ last' # last
          => \A c \in last'.selected \ last'.raising :
                stats'.reminders[c] = stats.reminders[c] + 1
       /\ "delay" \in DOMAIN last' /\ last' # last
          => \A c \in overdue_commitments(now) : commitments'[c].status = "failed"]_vars

\* C25, its case: a run of the reminder job selected two rows, the call
\* raised on one of them and the other got its reminder.
C25_Witness ==
    /\ "raising" \in DOMAIN last
    /\ Cardinality(last.selected) = 2
    /\ \E c \in last.selected :
          /\ last.raising = {c}
          /\ \A d \in last.selected \ {c} : stats.reminders[d] = 1

\* C26: a commitment is reminded at most once while it stays inside the
\* reminder window (its end_time never changes, so it crosses one window).
C26_RemindedOncePerWindow ==
    \A c \in Stored : stats.reminders[c] <= 1

\* C26, its case: two runs of the reminder job found the same active
\* commitment without evidence inside the window.
C26_Witness ==
    /\ "raising" \in DOMAIN last
    /\ \E c \in last.selected \ last.raising : stats.reminders[c] = 2

\* ================================================== a job run twice
\* The clock, running past MaxTime: long enough for the successor of an
\* overdue commitment to be overdue itself when it is created.
TickLate ==
    /\ now < MaxLate
    /\ now' = now + 1
    /\ UNCHANGED <<commitments, origin, spawned, verifications, complaints,
                   appeals, stats, held, capacity, last>>

\* The queryset of auto_activate_commitments.
Activated_selected ==
    {c \in Stored : /\ commitments[c].status = "draft"
                    /\ commitments[c].start_time <= now
                    /\ commitments[c].end_time > now}

\* The table a run of auto_activate_commitments leaves.
Activated ==
    [c \in Stored |->
        IF /\ commitments[c].status = "draft"
           /\ commitments[c].start_time <= now
           /\ commitments[c].end_time > now
        THEN activate(commitments[c], now).obj
        ELSE commitments[c]]

NextTwice ==
    \/ TickLate
    \/ perform_create
    \/ \E c \in Stored : Commitment_submit_evidence(c)
    \/ auto_activate_commitments
    \/ auto_fail_overdue_commitments

SpecTwice == InitRows /\ [][NextTwice]_vars

\* C27: a sweeper job run again at the same clock time, right after a run
\* of itself, changes nothing: after a step that leaves the tables as the
\* auto-activate job (as the auto-fail job) leaves them, a run of that job
\* leaves the same commitments with the same statuses and spawns no successor.
C27_JobsIdempotent ==
    [][/\ commitments' = Activated /\ now' = now => Activated' = commitments'
       /\ /\ commitments' = Swept.commitments
          /\ spawned' = Swept.spawned
          /\ now' = now
          => /\ Swept'.commitments = commitments'
             /\ Swept'.spawned = spawned']_vars

\* C27, its case: the auto-fail job failed a daily commitment and spawned
\* its successor, and a second run at the same time would change nothing.
C27_Witness ==
    /\ last.op = "auto_fail_overdue_commitments"
    /\ Len(commitments) = 2
    /\ commitments[1].status = "failed"
    /\ commitments[1].frequency = "daily"
    /\ spawned[1] = 1
    /\ Swept.commitments = commitments

\* ================================================== a job and a request
\* auto_activate_commitments, up to the evaluation of its queryset: the job
\* holds an instance of every draft row whose window has opened.
auto_activate_commitments_load ==
    /\ held = <<>>
    /\ \E c \in Stored :
          /\ commitments[c].status = "draft"
          /\ commitments[c].start_time <= now
          /\ commitments[c].end_time > now
    /\ held' = [i \in 1..Len(Descending(Activated_selected)) |->
                   [op |-> "auto_activate_commitments",
                    c |-> Descending(Activated_selected)[i],
                    obj |-> commitments[Descending(Activated_selected)[i]]]]
    /\ UNCHANGED <<now, commitments, origin, spawned, verifications, complaints,
                   appeals, stats, capacity, last>>

\* The loop of the job over the instances it holds: activate() tests the
\* status of the instance and save() writes every field of it.
auto_activate_commitments_loaded ==
    /\ held # <<>>
    /\ commitments' =
          [c \in Stored |->
              IF \E i \in 1..Len(held) : held[i].c = c /\ activate(held[i].obj, now).ok
              THEN activate(held[CHOOSE i \in 1..Len(held) : held[i].c = c].obj, now).obj
              ELSE commitments[c]]
    /\ Record("auto_activate_commitments", 0,
              \E i \in 1..Len(held) : activate(held[i].obj, now).ok)
    /\ held' = <<>>
    /\ UNCHANGED <<now, capacity, origin, spawned, stats, verifications,
                   complaints, appeals>>

NextRace ==
    \/ Tick
    \/ perform_create
    \/ \E c \in Stored :
          \/ views_activate(c)
          \/ views_cancel(c)
          \/ views_mark_completed(c)
    \/ auto_activate_commitments_load
    \/ auto_activate_commitments_loaded

SpecRace == Init /\ [][NextRace]_vars

\* C28: a status stored as cancelled or completed is never overwritten,
\* whatever the interleaving of the auto-activate job with the requests of
\* the user on the same commitment.
C28_StoredStatusValidated ==
    [][\A c \in Stored :
          commitments[c].status \in {"cancelled", "completed"}
          => commitments'[c].status = commitments[c].status]_vars

\* C28, its case: the user has cancelled a draft commitment of which the
\* job holds an instance, and the job is about to go through its instances.
C28_Witness ==
    /\ held # <<>>
    /\ held[1].op = "auto_activate_commitments"
    /\ held[1].obj.status = "draft"
    /\ commitments[held[1].c].status = "cancelled"
    /\ last = Done("cancel", held[1].c)

\* ================================================== verifications in full
\* The table of EvidenceVerification rows, each with its commitment, its
\* reviewer ("None" or "staff"), its notes and whether verified_at is set.
EvidenceVerification(commitment) ==
    [commitment |-> commitment, status |-> "pending", verified_by |-> "None",
     notes |-> "", verified_at |-> FALSE]

is_pending(self) == self.status = "pending"

\* EvidenceVerification.objects.get_or_create(commitment=commitment,
\* defaults={'status': 'pending'}) on the table rows.
get_or_create(rows, commitment) ==
    IF \E k \in 1..Len(rows) : rows[k].commitment = commitment
    THEN [rows |-> rows, created |-> FALSE,
          k |-> CHOOSE k \in 1..Len(rows) : rows[k].commitment = commitment]
    ELSE [rows |-> Append(rows, EvidenceVerification(commitment)),
          created |-> TRUE, k |-> Len(rows) + 1]

reset_keeping_reviewer(verification) ==
    [verification EXCEPT !.status = "pending", !.verified_at = FALSE]

\* The reset of a verification that existed when evidence is resubmitted.
reset(verification) ==
    [verification EXCEPT !.status = "pending", !.verified_by = "None",
                         !.verified_at = FALSE]

\* The table after _submit_for_verification for commitment.
submitted_for_verification(rows, commitment) ==
    LET g == get_or_create(rows, commitment)
    IN  IF g.created THEN g.rows ELSE [g.rows EXCEPT ![g.k] = reset(@)]

\* The fields a review action writes.
Stamped(self, status, verified_by, notes) ==
    [self EXCEPT !.status = status, !.verified_by = verified_by,
                 !.notes = notes, !.verified_at = TRUE]

\* EvidenceVerification.approve on the row self with its commitment.
verification_approve(self, commitment, verified_by, notes) ==
    LET a == EvidenceVerification_approve(self.status, commitment)
    IN  [ok |-> a.ok, commitment |-> a.commitment,
         obj |-> IF self.status \in {"approved", "rejected"} THEN self
                 ELSE Stamped(self, a.status, verified_by, notes)]

\* EvidenceVerification.reject on the row self with its commitment.
verification_reject(self, commitment, verified_by, notes) ==
    LET a == EvidenceVerification_reject(self.status, commitment)
    IN  [ok |-> a.ok, commitment |-> a.commitment,
         obj |-> IF self.status \in {"approved", "rejected"} THEN self
                 ELSE Stamped(self, a.status, verified_by, notes)]

\* EvidenceVerification.request_more_info, and the service of that name,
\* which only calls it.
verification_request_more_info(self, commitment, verified_by, notes) ==
    [ok |-> TRUE, commitment |-> commitment,
     obj |-> Stamped(self, EvidenceVerification_request_more_info(self.status),
                     verified_by, notes)]

InitReview ==
    /\ capacity = 1
    /\ now = 0
    /\ commitments = <<>>
    /\ origin = <<>>
    /\ spawned = [c \in Ids |-> 0]
    /\ verifications = <<>>
    /\ complaints = <<>>
    /\ appeals = [c \in Ids |-> 0]
    /\ stats = [successful_contracts |-> 0, failed_contracts |-> 0]
    /\ held = <<>>
    /\ last = Done("init", 0)

\* CommitmentViewSet.mark_completed, with the verification it creates or
\* resets.
review_mark_completed(c) ==
    \E evidence_type \in EVIDENCE_TYPE_CHOICES \cup {""}, evidence_text \in BOOLEAN :
        LET s == CommitmentService_complete_commitment(commitments[c], evidence_type,
                                                       evidence_text, now)
        IN  /\ Apply(c, s.out)
            /\ verifications' = IF s.verified
                                THEN submitted_for_verification(verifications, c)
                                ELSE verifications
            /\ Record(IF s.verified THEN "submit_for_verification"
                      ELSE "complete_self_verified", c, s.out.res = "ok")
            /\ UNCHANGED <<frame, complaints, appeals>>

\* The three branches of EvidenceVerificationViewSet.verify on the instance
\* verification with the commitment loaded along with it.
Verified(k, verification, commitment) ==
    \E notes \in {"", "blurry"} :
        \/ LET s == EvidenceVerificationService_approve_evidence(verification.status,
                                                                 commitment)
           IN  /\ Apply(verification.commitment, s.out)
               /\ verifications' =
                     IF s.out.res = "ok"
                     THEN [verifications EXCEPT
                              ![k] = Stamped(verification, s.status, "staff", notes)]
                     ELSE verifications
               /\ Record("approve_evidence", k, s.out.res = "ok")
        \/ LET s == EvidenceVerificationService_reject_evidence(verification.status,
                                                                commitment)
           IN  /\ Apply(verification.commitment, s.out)
               /\ verifications' =
                     IF s.out.res = "ok"
                     THEN [verifications EXCEPT
                              ![k] = Stamped(verification, s.status, "staff", notes)]
                     ELSE verifications
               /\ Record("reject_evidence", k, s.out.res = "ok")
        \/ /\ verifications' =
                 [verifications EXCEPT
                     ![k] = verification_request_more_info(verification, commitment,
                                                           "staff", notes).obj]
           /\ Record("request_more_info", k, TRUE)
           /\ UNCHANGED <<commitments, origin, spawned, stats>>

\* EvidenceVerificationViewSet.verify
review_verify(k) ==
    /\ is_pending(verifications[k])
    /\ Verified(k, verifications[k], commitments[verifications[k].commitment])
    /\ UNCHANGED <<frame, complaints, appeals>>

\* verify, up to the test of is_pending: the request holds the row and its
\* commitment as loaded by get_object.
review_verify_load(k) ==
    /\ held = <<>>
    /\ is_pending(verifications[k])
    /\ held' = << [op |-> "verify", k |-> k, obj |-> verifications[k],
                   commitment |-> commitments[verifications[k].commitment]] >>
    /\ UNCHANGED <<now, commitments, origin, spawned, verifications, complaints,
                   appeals, stats, capacity, last>>

\* verify, from the call of the service on the instances it holds.
review_verify_loaded ==
    /\ held # <<>>
    /\ Verified(Head(held).k, Head(held).obj, Head(held).commitment)
    /\ held' = <<>>
    /\ UNCHANGED <<now, capacity, complaints, appeals>>

\* The admin actions approve_evidence, reject_evidence and
\* request_more_information on one selected row: the method of the model,
\* outside any transaction.
review_admin(k) ==
    /\ is_pending(verifications[k])
    /\ \E action \in {"approve", "reject", "request_more_info"} :
          LET c == verifications[k].commitment
              a == IF action = "approve"
                   THEN verification_approve(verifications[k], commitments[c],
                                             "staff", "Bulk approved by admin")
                   ELSE IF action = "reject"
                   THEN verification_reject(verifications[k], commitments[c],
                                            "staff", "Bulk rejected by admin")
                   ELSE verification_request_more_info(
                            verifications[k], commitments[c], "staff",
                            "More information requested by admin")
          IN  /\ verifications' = [verifications EXCEPT ![k] = a.obj]
              /\ commitments' = [commitments EXCEPT ![c] = a.commitment]
              /\ Record("admin_" \o action, k, TRUE)
    /\ UNCHANGED <<stats, frame, origin, spawned, complaints, appeals>>

NextReview ==
    \/ Tick
    \/ perform_create
    \/ \E c \in Stored :
          \/ views_pause(c)
          \/ views_resume(c)
          \/ review_mark_completed(c)
    \/ \E k \in 1..Len(verifications) :
          \/ review_verify(k)
          \/ review_admin(k)

SpecReview == InitReview /\ [][NextReview]_vars

\* The same with a verify request that has loaded its row while other
\* requests go on.
NextReviewLoaded ==
    \/ Tick
    \/ perform_create
    \/ \E c \in Stored : review_mark_completed(c)
    \/ \E k \in 1..Len(verifications) :
          \/ review_verify(k)
          \/ review_verify_load(k)
          \/ review_admin(k)
    \/ review_verify_loaded

SpecReviewLoaded == InitReview /\ [][NextReviewLoaded]_vars

\* C29: a submission of evidence for review leaves the verification of the
\* commitment pending, with no reviewer and no verified_at, and creates no
\* second row when one existed; no two rows have the same commitment.
C29_ResubmissionResets ==
    [][/\ \A i, j \in 1..Len(verifications') :
             verifications'[i].commitment = verifications'[j].commitment => i = j
       /\ \A c \in Stored :
             last' = Done("submit_for_verification", c) /\ last' # last
             => /\ \E k \in 1..Len(verifications') :
                      /\ verifications'[k].commitment = c
                      /\ verifications'[k].status = "pending"
                      /\ verifications'[k].verified_by = "None"
                      /\ ~verifications'[k].verified_at
                /\ (\E k \in 1..Len(verifications) : verifications[k].commitment = c)
                   => Len(verifications') = Len(verifications)]_vars

\* C29, its case: evidence was resubmitted for a commitment whose
\* verification had been reviewed (its notes are those of the review).
C29_Witness ==
    /\ last = Done("submit_for_verification", 1)
    /\ Len(verifications) = 1
    /\ verifications[1].notes # ""
    /\ verifications[1].status = "pending"
    /\ verifications[1].verified_by = "None"
    /\ ~verifications[1].verified_at

\* C30: on a verification that is not pending each of approve, reject and
\* request_more_info fails and leaves the verification and its commitment
\* as they were; request_more_info sets needs_more_info and leaves the
\* commitment as it was.
C30_ReviewOnlyPending ==
    \A k \in 1..Len(verifications) :
        LET v == verifications[k]
            c == commitments[v.commitment]
            calls == {verification_approve(v, c, "staff", ""),
                      verification_reject(v, c, "staff", ""),
                      verification_request_more_info(v, c, "staff", "")}
        IN  /\ ~is_pending(v)
               => \A r \in calls : ~r.ok /\ r.obj = v /\ r.commitment = c
            /\ verification_request_more_info(v, c, "staff", "").obj.status
                  = "needs_more_info"
            /\ verification_request_more_info(v, c, "staff", "").commitment = c

\* C30, its case: a verify request that found the verification pending is
\* about to call the service on a verification stored as approved.
C30_Witness ==
    /\ held # <<>>
    /\ is_pending(held[1].obj)
    /\ verifications[held[1].k].status = "approved"
    /\ commitments[held[1].obj.commitment].status = "completed"

\* ================================================== the state methods, one by one
\* The requests of the owner on one commitment and the methods of the
\* model called on it, with the clock.
NextMethods ==
    \/ Tick
    \/ perform_create
    \/ \E c \in Stored :
          \/ views_activate(c)
          \/ views_pause(c)
          \/ views_resume(c)
          \/ views_cancel(c)
          \/ views_mark_completed(c)
          \/ views_mark_failed(c)
          \/ Commitment_submit_evidence(c)
          \/ Commitment_mark_completed(c)
          \/ Commitment_mark_failed(c)

SpecMethods == Init /\ [][NextMethods]_vars

\* C31: activate succeeds exactly on a draft commitment whose end_time is
\* after the current time, and then sets status active and activated_at;
\* otherwise it fails and leaves the commitment as it was.
C31_ActivateExactlyDraftInTime ==
    [][\A c \in Stored :
          LET self == commitments[c]
              r == activate(self, now)
          IN  /\ r.ok <=> (self.status = "draft" /\ self.end_time > now)
              /\ r.ok => r.obj = [self EXCEPT !.status = "active",
                                              !.activated_at = TRUE]
              /\ ~r.ok => r.obj = self
              /\ last' = Done("activate", c) /\ last' # last
                 => /\ self.status = "draft" /\ self.end_time > now
                    /\ commitments'[c].status = "active"
                    /\ commitments'[c].activated_at]_vars

\* C31, its case: the owner activated a draft commitment before its
\* deadline.
C31_Witness ==
    /\ last = Done("activate", 1)
    /\ commitments[1].status = "active"
    /\ commitments[1].activated_at
    /\ commitments[1].end_time > now

C33_ResumeRestores ==
    [][\A c \in Stored :
          /\ commitments[c].status # "paused" \/ now > commitments[c].end_time
             => /\ ~resume(commitments[c], now).ok
                /\ resume(commitments[c], now).obj = commitments[c]
          /\ last' = Done("pause", c) /\ last' # last /\ now <= commitments[c].end_time
             => /\ resume(commitments'[c], now).ok
                /\ resume(commitments'[c], now).obj.status = commitments[c].status]_vars

\* C33, its case: the owner paused a commitment under review and resumed
\* it before its deadline.
C33_Witness ==
    /\ last = Done("resume", 1)
    /\ commitments[1].status = "under_review"
    /\ commitments[1].evidence_type # "self_verification"
    /\ now <= commitments[1].end_time

\* ================================================== rows and their successors
\* The creation of the one commitment that is followed with its successors.
perform_create_first ==
    /\ commitments = <<>>
    /\ perform_create

\* The requests of the owner and the auto-activate job on a table with room
\* for the successors that completing and failing spawn.
NextStored ==
    \/ Tick
    \/ perform_create_first
    \/ \E c \in Stored :
          \/ views_activate(c)
          \/ views_pause(c)
          \/ views_resume(c)
          \/ views_mark_completed(c)
          \/ views_mark_failed(c)
          \/ Commitment_submit_evidence(c)
    \/ auto_activate_commitments
    \/ auto_fail_overdue_commitments

SpecStored == InitRows /\ [][NextStored]_vars

\* C34: in every stored commitment evidence_submitted_at is set if and only
\* if evidence_submitted is true.
C34_SubmittedIffStamped ==
    \A c \in Stored :
        commitments[c].evidence_submitted_at <=> commitments[c].evidence_submitted

\* C34, its case: a daily self-verified commitment was completed with an
\* evidence text and its successor is stored without evidence.
C34_Witness ==
    /\ Len(commitments) = 2
    /\ commitments[1].status = "completed"
    /\ commitments[1].evidence_type = "self_verification"
    /\ commitments[1].evidence_submitted
    /\ commitments[1].evidence_submitted_at
    /\ origin[2] = 1
    /\ ~commitments[2].evidence_submitted
    /\ ~commitments[2].evidence_submitted_at

\* C35: end_time is after start_time in every commitment, and the successor
\* of a parent of any frequency is created with end_time after start_time:
\* create_next_instance does not fail on the constraint.
C35_SuccessorEndsAfterStart ==
    /\ \A c \in Stored :
          datetime_lt(commitments[c].start_time, commitments[c].end_time)
    /\ last.op # "IntegrityError"
    /\ next_instance(commitments[1]).res # "IntegrityError"

\* C35, its case: a monthly parent whose window crosses midnight got its
\* successor, with both ends moved to the next month.
C35_Witness ==
    /\ last = Done("create_next_instance", 1)
    /\ Len(commitments) = 2
    /\ commitments[1].frequency = "monthly"
    /\ commitments[1].start_time.day # commitments[1].end_time.day
    /\ commitments[2].start_time.month # commitments[1].start_time.month
    /\ datetime_lt(commitments[2].start_time, commitments[2].end_time)

\* C36: an evidence approve or reject that leaves the status of the parent
\* commitment as it was spawns no successor and changes no counter.
C36_SpawnOnlyOnTransition ==
    [][\A k \in 1..Len(verifications) :
          /\ last' \in {Done("approve_evidence", k), Done("reject_evidence", k)}
          /\ last' # last
          /\ commitments'[verifications[k].commitment].status
                = commitments[verifications[k].commitment].status
          => spawned' = spawned /\ stats' = stats]_vars

\* C36, its case: the evidence of a paused daily commitment was approved
\* through the verify endpoint, and the commitment is still paused.
C36_Witness ==
    /\ last = Done("approve_evidence", 1)
    /\ verifications[1].status = "approved"
    /\ commitments[1].status = "paused"
    /\ commitments[1].frequency = "daily"

\* C37: CommitmentService.mark_commitment_failed succeeds on every
\* commitment that is not completed, cancelled or failed, with or without a
\* stake amount: the status becomes failed and completed_at is set.
C37_MarkFailedAnyStake ==
    \A c \in Stored :
        commitments[c].status \notin {"completed", "cancelled", "failed"}
        => LET out == CommitmentService_mark_commitment_failed(commitments[c])
           IN  /\ out.res = "ok"
               /\ out.obj.status = "failed"
               /\ out.obj.completed_at

\* C37, its case: the owner failed a commitment that has a stake amount.
C37_Witness ==
    /\ last = Done("mark_commitment_failed", 1)
    /\ commitments[1].status = "failed"
    /\ commitments[1].completed_at
    /\ commitments[1].stake_amount

\* C38: a commitment whose status is under_review has a verification that
\* is pending or needs_more_info.
C38_UnderReviewHasOpenVerification ==
    \A c \in Stored :
        commitments[c].status = "under_review"
        => \E k \in 1..Len(verifications) :
              /\ verifications[k].commitment = c
              /\ verifications[k].status \in {"pending", "needs_more_info"}

\* C38, its case: evidence was submitted for review, and the commitment was
\* paused and resumed while its verification stayed pending.
C38_Witness ==
    /\ last = Done("resume", 1)
    /\ commitments[1].status = "under_review"
    /\ Len(verifications) = 1
    /\ verifications[1].status = "pending"

\* C39: whenever an operation sets the status of a commitment to active,
\* or stores a new commitment as active, its end_time is after the current
\* time.
C39_ActiveOnlyBeforeDeadline ==
    [][\A c \in 1..Len(commitments') :
          /\ c \in Stored => commitments[c].status # "active"
          /\ commitments'[c].status = "active"
          => commitments'[c].end_time > now]_vars

\* C39, its case: a successor was stored as active before its deadline.
C39_Witness ==
    /\ Len(commitments) = 2
    /\ origin[2] = 1
    /\ commitments[2].status = "active"
    /\ commitments[2].end_time > now
    /\ last.op \in {"mark_commitment_failed", "auto_fail_overdue_commitments"}

=============================================================================
